---------------------------- MODULE Spec2Model ----------------------------
(***************************************************************************)
(* A model of scripts/generate-registry.js: the version selectors          *)
(* (inspectNpm, getLatestGitTags), the epoch classifiers, the per          *)
(* repository evidence aggregation (processRepo) and the batch driver      *)
(* (parseRegistry).                                                        *)
(*                                                                         *)
(* Strings are modelled by the structure the code reads from them.  An     *)
(* optional value (null / undefined in the source) is a sequence of        *)
(* length 0 or 1.                                                          *)
(***************************************************************************)
EXTENDS Integers, Sequences, FiniteSets, TLC

VARIABLES
    \* ---- version selection (inspectNpm / getLatestGitTags) ----
    selPc,          \* "start" | "done"
    selVersions,    \* the version strings handed to the selector, in input order
    selNpm,         \* what inspectNpm produced for them (or that it threw)
    selTags,        \* what getLatestGitTags produced for the same names as tags
    \* ---- one call of processRepo ----
    rPc,            \* where the call stands
    gitRef,         \* its gitRef argument
    branchCandidates,
    pkgs,           \* the manifests found on the candidate branches
    pkgIdx,         \* position of the loop over pkgs
    supports,       \* supportsV0, supportsV1, supportsV2
    supportedBranches,
    issues,
    gitTagInfo, npmInfo, repoInfo,
    npmIdx,         \* position of the loop over npmVersionChecks
    entry,          \* the entry returned, once it is
    branchSupports, \* history: the flags as the loop over pkgs left them
    hadManifest,    \* history: some manifest had both a version and a core range
    \* ---- one run of main / parseRegistry ----
    bPc,            \* where the run stands
    registry,       \* the entries of index.json, in file order
    batchSize,      \* CONFIG.BATCH_SIZE
    entries,        \* the filtered, sorted entries
    bi,             \* the loop variable i
    report,
    allIssues,
    returned,       \* the registry parseRegistry returns, once it does
    fetched,        \* history: what the remote services answered, per entry
    handed,         \* history: the references handed to processRepo
    \* ---- the range classifiers applied to one core range ----
    rgRange,        \* the raw core range (absent, or a JSON value)
    rgCompat,       \* what isCompatibleWithMajorVersion answered, per major
    rgDominant,     \* what getCoreRangeMajor answered
    \* ---- one remote read, with its retries ----
    fPc,            \* "start" | "try" (a request is out) | "wait" (backoff) | "done"
    fCall,          \* which read: branches, tags, repoInfo, npm, manifest
    fRetries,       \* CONFIG.RETRY_ATTEMPTS
    fPath,          \* the file asked for, for a manifest
    fAttempt,       \* the loop variable `attempt`
    fRoot, fTs,     \* what fetchGitHubFile returned for the two manifest files
    fOut,           \* what the read returned, once it has
    fTries,         \* history: requests issued, per file
    fFailures,      \* history: requests that failed, per file
    fWaits,         \* history: the backoff delays waited, in ms
    \* ---- the batch loop of parseRegistry, task by task ----
    flPc,           \* "start" | "await" (Promise.all) | "pause" | "done" | "rejected"
    flN,            \* entries.length
    flSize,         \* CONFIG.BATCH_SIZE
    flDelay,        \* CONFIG.BATCH_DELAY_MS
    flI,            \* the loop variable `i`
    flRunning,      \* positions in `entries` whose processRepo is in flight
    flResults,      \* positions of the batch whose processRepo has fulfilled
    flReport,       \* positions folded into report and allIssues
    flPauses,       \* history: the delays waited between batches
    flBatches,      \* history: the number of batches launched
    \* ---- the remote calls of one processRepo, as they overlap ----
    jPc,            \* where processRepo waits: "start" | "awaitBranches" |
                    \* "awaitManifests" | "awaitJoin" | "done" | "threw" | "crashed"
    jRef,           \* the gitRef argument
    jCalls,         \* per call started at lines 341-344: "idle" | "pending" | how it settled
    jFiles          \* the candidate branches whose fetchPackageJSON is pending

selVars == <<selPc, selVersions, selNpm, selTags>>
repoVars == <<rPc, gitRef, branchCandidates, pkgs, pkgIdx, supports, supportedBranches,
              issues, gitTagInfo, npmInfo, repoInfo, npmIdx, entry, branchSupports,
              hadManifest>>
batchVars == <<bPc, registry, batchSize, entries, bi, report, allIssues, returned, fetched,
               handed>>
rangeVars == <<rgRange, rgCompat, rgDominant>>
fetchVars == <<fPc, fCall, fRetries, fPath, fAttempt, fRoot, fTs, fOut, fTries, fFailures,
               fWaits>>
flightVars == <<flPc, flN, flSize, flDelay, flI, flRunning, flResults, flReport, flPauses,
                flBatches>>
joinVars == <<jPc, jRef, jCalls, jFiles>>
auxVars == <<rangeVars, fetchVars, flightVars, joinVars>>
vars == <<selVars, repoVars, batchVars, auxVars>>

None == <<>>
Some(x) == <<x>>
IsSome(o) == Len(o) = 1
Get(o) == o[1]

\* The epochs the script reasons about: v0, v1, v2.
Epochs == {0, 1, 2}

(***************************************************************************)
(* Version strings.                                                        *)
(*   ok  : the string parses as a semantic version                         *)
(*   v   : it carries a leading "v" (as tag names do)                      *)
(*   maj, min, pat : the numeric fields                                    *)
(*   pre : 0 for no pre-release suffix, k > 0 for the suffix "-rc.k"       *)
(*   bh  : it carries build metadata that contains a hyphen ("+a-b")       *)
(***************************************************************************)
MaxMajor == 3
MaxMinor == 1
MaxPre == 2
MaxVersions == 2

Ver(maj, min, pre) ==
    [ok |-> TRUE, v |-> FALSE, maj |-> maj, min |-> min, pat |-> 0,
     pre |-> pre, bh |-> FALSE]

Malformed ==
    [ok |-> FALSE, v |-> FALSE, maj |-> 0, min |-> 0, pat |-> 0,
     pre |-> 0, bh |-> FALSE]

VersionStrings ==
    {Ver(maj, min, pre) : maj \in 0..MaxMajor, min \in 0..MaxMinor, pre \in 0..MaxPre}
    \cup {[Ver(maj, 0, 0) EXCEPT !.bh = TRUE] : maj \in 0..MaxMajor}
    \cup {[Ver(maj, 0, 0) EXCEPT !.v = TRUE] : maj \in 0..MaxMajor}
    \cup {Malformed}

\* semver.valid / the SemVer constructor: does the string parse.
semverValid(s) == s.ok

\* semver.clean: strips the leading "v", parses, and prints the version
\* without its build metadata; null for a string that does not parse.
semverClean(s) ==
    IF s.ok THEN Some([s EXCEPT !.v = FALSE, !.bh = FALSE]) ELSE None

\* semver.major of a string that parses.
semverMajor(s) == s.maj

\* String.prototype.includes('-') on a version string: the hyphen of a
\* pre-release suffix or one inside the build metadata.
includesHyphen(s) == s.pre > 0 \/ s.bh

\* semver.compare: numeric fields first, then a version without pre-release
\* outranks one with, and pre-release identifiers compare numerically.
\* Build metadata and the leading "v" take no part.
semverCompare(a, b) ==
    IF a.maj # b.maj THEN (IF a.maj > b.maj THEN 1 ELSE -1)
    ELSE IF a.min # b.min THEN (IF a.min > b.min THEN 1 ELSE -1)
    ELSE IF a.pat # b.pat THEN (IF a.pat > b.pat THEN 1 ELSE -1)
    ELSE IF a.pre = b.pre THEN 0
    ELSE IF a.pre = 0 THEN 1
    ELSE IF b.pre = 0 THEN -1
    ELSE IF a.pre > b.pre THEN 1 ELSE -1

semverRcompare(a, b) == semverCompare(b, a)

\* Array.prototype.sort with the comparator semver.rcompare: a stable sort into
\* descending precedence (elements that compare equal keep their input order).
RECURSIVE InsertDesc(_, _)
InsertDesc(sorted, x) ==
    IF sorted = <<>> THEN <<x>>
    ELSE IF semverRcompare(Head(sorted), x) <= 0
         THEN <<Head(sorted)>> \o InsertDesc(Tail(sorted), x)
         ELSE <<x>> \o sorted

RECURSIVE SortDesc(_)
SortDesc(s) ==
    IF s = <<>> THEN <<>>
    ELSE InsertDesc(SortDesc(SubSeq(s, 1, Len(s) - 1)), s[Len(s)])

\* Array.prototype.find: the first element satisfying P, if any.
FindFirst(s, P(_)) ==
    LET hits == SelectSeq(s, P) IN IF hits = <<>> THEN None ELSE Some(Head(hits))

(***************************************************************************)
(* Dependency-range strings.                                               *)
(*   kind : "range"     text made of comparators ("^1.2.3", ">=1.0.0 <3",   *)
(*                      "1.x || 2.x", "*", "1.2.3")                        *)
(*          "text"      other text; `alts` holds its first token when it   *)
(*                      reads like a comparator ("1.0.0.0", "0.x.y")       *)
(*          "latest", "workspace" ("workspace:*"), "http", "git", "file"   *)
(*          "nonstring" a JSON value that is not a string                  *)
(*   alts : the ||-separated alternatives, each a sequence of primitives   *)
(* A primitive is an operator and a partial version; a part is a number,   *)
(* X (written "x" or "*") or NoPart (not written).                         *)
(***************************************************************************)
X == -1
NoPart == -2

Prim(op, maj, min, pat, pre) ==
    [op |-> op, v |-> FALSE, maj |-> maj, min |-> min, pat |-> pat, pre |-> pre]

RangeStr(alts) == [kind |-> "range", alts |-> alts]
OneRange(prim) == RangeStr(<< <<prim>> >>)
Word(kind) == [kind |-> kind, alts |-> <<>>]
TextStartingWith(prim) == [kind |-> "text", alts |-> << <<prim>> >>]

isString(r) == r.kind # "nonstring"

\* String.prototype.startsWith, for the prefixes the script asks about.
startsWith(r, prefix) ==
    CASE prefix = "workspace:" -> r.kind = "workspace"
      [] prefix = "http" -> r.kind = "http"
      [] prefix = "git" -> r.kind = "git"
      [] prefix = "file:" -> r.kind = "file"
      [] OTHER -> FALSE

\* A comparator of a parsed range: op is ">=", ">", "<", "<=", "=" (a bare
\* version) or "*" (any version).
Cmp(op, maj, min, pat, pre) == [op |-> op, maj |-> maj, min |-> min, pat |-> pat, pre |-> pre]
AnyCmp == Cmp("*", 0, 0, 0, 0)
\* "<0.0.0-0": the comparator nothing satisfies ("-0" is pre-release rank 1).
NullCmp == Cmp("<", 0, 0, 0, 1)

isX(part) == part = X \/ part = NoPart

\* semver's replaceCaret (no includePrerelease: validRange is called
\* without options).
replaceCaret(p) ==
    IF isX(p.maj) THEN <<AnyCmp>>
    ELSE IF isX(p.min) THEN <<Cmp(">=", p.maj, 0, 0, 0), Cmp("<", p.maj + 1, 0, 0, 1)>>
    ELSE IF isX(p.pat) THEN
        IF p.maj = 0
        THEN <<Cmp(">=", p.maj, p.min, 0, 0), Cmp("<", p.maj, p.min + 1, 0, 1)>>
        ELSE <<Cmp(">=", p.maj, p.min, 0, 0), Cmp("<", p.maj + 1, 0, 0, 1)>>
    ELSE IF p.maj = 0 THEN
        IF p.min = 0
        THEN <<Cmp(">=", p.maj, p.min, p.pat, p.pre), Cmp("<", p.maj, p.min, p.pat + 1, 1)>>
        ELSE <<Cmp(">=", p.maj, p.min, p.pat, p.pre), Cmp("<", p.maj, p.min + 1, 0, 1)>>
    ELSE <<Cmp(">=", p.maj, p.min, p.pat, p.pre), Cmp("<", p.maj + 1, 0, 0, 1)>>

\* semver's replaceTilde.
replaceTilde(p) ==
    IF isX(p.maj) THEN <<AnyCmp>>
    ELSE IF isX(p.min) THEN <<Cmp(">=", p.maj, 0, 0, 0), Cmp("<", p.maj + 1, 0, 0, 1)>>
    ELSE IF isX(p.pat) THEN <<Cmp(">=", p.maj, p.min, 0, 0), Cmp("<", p.maj, p.min + 1, 0, 1)>>
    ELSE <<Cmp(">=", p.maj, p.min, p.pat, p.pre), Cmp("<", p.maj, p.min + 1, 0, 1)>>

\* semver's replaceXRange, for the operators "", "=", ">=", ">", "<", "<=".
replaceXRange(p) ==
    LET xM == isX(p.maj)
        xm == xM \/ isX(p.min)
        xp == xm \/ isX(p.pat)
        gtlt == IF p.op = "=" /\ xp THEN "" ELSE p.op
        m0 == IF xm THEN 0 ELSE p.min
    IN  IF xM THEN (IF gtlt \in {">", "<"} THEN <<NullCmp>> ELSE <<AnyCmp>>)
        ELSE IF gtlt # "" /\ xp THEN
            CASE gtlt = ">" ->
                    IF xm THEN <<Cmp(">=", p.maj + 1, 0, 0, 0)>>
                    ELSE <<Cmp(">=", p.maj, m0 + 1, 0, 0)>>
              [] gtlt = "<=" ->
                    IF xm THEN <<Cmp("<", p.maj + 1, 0, 0, 1)>>
                    ELSE <<Cmp("<", p.maj, m0 + 1, 0, 1)>>
              [] gtlt = "<" -> <<Cmp("<", p.maj, m0, 0, 1)>>
              [] OTHER -> <<Cmp(gtlt, p.maj, m0, 0, 0)>>
        ELSE IF xm THEN <<Cmp(">=", p.maj, 0, 0, 0), Cmp("<", p.maj + 1, 0, 0, 1)>>
        ELSE IF xp THEN <<Cmp(">=", p.maj, p.min, 0, 0), Cmp("<", p.maj, p.min + 1, 0, 1)>>
        ELSE <<Cmp(IF gtlt = "" THEN "=" ELSE gtlt, p.maj, p.min, p.pat, p.pre)>>

\* semver's parseComparator: one primitive to its comparators.
parseComparator(p) ==
    CASE p.op = "^" -> replaceCaret(p)
      [] p.op = "~" -> replaceTilde(p)
      [] OTHER -> replaceXRange(p)

RECURSIVE Flatten(_)
Flatten(ss) == IF ss = <<>> THEN <<>> ELSE Head(ss) \o Flatten(Tail(ss))

\* semver.validRange: the range in normal form (as its comparator sets: the
\* string it prints holds exactly their values, and intersects parses them
\* back), or null for text that is no range.
semverValidRange(r) ==
    IF r.kind # "range" THEN None
    ELSE Some([a \in 1..Len(r.alts) |->
                 Flatten([i \in 1..Len(r.alts[a]) |-> parseComparator(r.alts[a][i])])])

\* Is the trimmed string one full version, as semver.valid(semver.clean(s))
\* asks: a single bare primitive (a leading "v" or "=" is stripped by clean)
\* with all three parts written.
isExactVersion(r) ==
    /\ r.kind = "range"
    /\ Len(r.alts) = 1
    /\ Len(r.alts[1]) = 1
    /\ r.alts[1][1].op \in {"", "="}
    /\ ~isX(r.alts[1][1].maj) /\ ~isX(r.alts[1][1].min) /\ ~isX(r.alts[1][1].pat)

\* normalizeDependencyRange taking a workspace placeholder, like "latest",
\* for a range any version satisfies.
normalizeDependencyRangeWorkspaceAny(depRange) ==
    IF ~IsSome(depRange) \/ ~isString(Get(depRange)) THEN None
    ELSE LET trimmed == Get(depRange)
         IN  IF trimmed.kind \in {"latest", "workspace"}
             THEN Some(<< <<Cmp(">=", 0, 0, 0, 0)>> >>)
             ELSE IF isExactVersion(trimmed)
                  THEN LET p == trimmed.alts[1][1]
                       IN  Some(<< <<Cmp(">=", p.maj, p.min, p.pat, p.pre)>> >>)
             ELSE IF startsWith(trimmed, "http") \/ startsWith(trimmed, "git")
                     \/ startsWith(trimmed, "file:")
                  THEN None
             ELSE semverValidRange(trimmed)

\* normalizeDependencyRange: `depRange` is the optional raw value.
normalizeDependencyRange(depRange) ==
    IF ~IsSome(depRange) \/ ~isString(Get(depRange)) THEN None
    ELSE LET trimmed == Get(depRange)
         IN  IF trimmed.kind = "latest" THEN Some(<< <<Cmp(">=", 0, 0, 0, 0)>> >>)
             ELSE IF isExactVersion(trimmed)
                  THEN LET p == trimmed.alts[1][1]
                       IN  Some(<< <<Cmp(">=", p.maj, p.min, p.pat, p.pre)>> >>)
             ELSE IF startsWith(trimmed, "http") \/ startsWith(trimmed, "git")
                     \/ startsWith(trimmed, "file:")
                  THEN None
             ELSE semverValidRange(trimmed)

\* semver's cmp(a, op, b)
semverCmp(a, op, b) ==
    CASE op = ">=" -> semverCompare(a, b) >= 0
      [] op = ">" -> semverCompare(a, b) > 0
      [] op = "<" -> semverCompare(a, b) < 0
      [] op = "<=" -> semverCompare(a, b) <= 0
      [] OTHER -> semverCompare(a, b) = 0

\* Comparator.test with includePrerelease.
cmpTest(c, ver) == c.op = "*" \/ semverCmp(ver, c.op, c)

\* semver's Comparator.intersects, with includePrerelease.
cmpIntersects(a, b) ==
    IF a.op = "*" \/ b.op = "*" THEN TRUE
    ELSE IF a.op = "=" THEN cmpTest(b, a)
    ELSE IF b.op = "=" THEN cmpTest(a, b)
    ELSE IF a = NullCmp \/ b = NullCmp THEN FALSE
    ELSE \/ a.op \in {">", ">="} /\ b.op \in {">", ">="}
         \/ a.op \in {"<", "<="} /\ b.op \in {"<", "<="}
         \/ semverCompare(a, b) = 0 /\ a.op \in {">=", "<="} /\ b.op \in {">=", "<="}
         \/ semverCompare(a, b) < 0 /\ a.op \in {">", ">="} /\ b.op \in {"<", "<="}
         \/ semverCompare(a, b) > 0 /\ a.op \in {"<", "<="} /\ b.op \in {">", ">="}

\* semver's isSatisfiable: the comparators of one set intersect pairwise.
isSatisfiable(cs) ==
    \A i, j \in 1..Len(cs) : i < j => cmpIntersects(cs[j], cs[i])

\* semver.intersects(r1, r2, {includePrerelease: true}) on normal forms.
semverIntersects(r1, r2) ==
    \E a \in 1..Len(r1) : \E b \in 1..Len(r2) :
        /\ isSatisfiable(r1[a])
        /\ isSatisfiable(r2[b])
        /\ \A i \in 1..Len(r1[a]) : \A j \in 1..Len(r2[b]) :
               cmpIntersects(r1[a][i], r2[b][j])

\* The band of an epoch: ">=N.0.0 <(N+1).0.0".
Band(majorVersion) ==
    << <<Cmp(">=", majorVersion, 0, 0, 0), Cmp("<", majorVersion + 1, 0, 0, 0)>> >>

\* isCompatibleWithMajorVersion letting a range that does not normalize
\* pass.
isCompatibleWithMajorVersionNullPasses(pluginCoreRange, majorVersion) ==
    LET normalizedRange == normalizeDependencyRange(pluginCoreRange)
    IN  IF ~IsSome(normalizedRange) THEN TRUE
        ELSE semverIntersects(Get(normalizedRange), Band(majorVersion))

\* isCompatibleWithMajorVersion
isCompatibleWithMajorVersion(pluginCoreRange, majorVersion) ==
    LET normalizedRange == normalizeDependencyRange(pluginCoreRange)
    IN  IF ~IsSome(normalizedRange) THEN FALSE
        ELSE semverIntersects(Get(normalizedRange), Band(majorVersion))

\* The regular expression /^[\^~]?N\./ of getCoreRangeMajor: an optional
\* caret or tilde, the digit N, a dot.
matchesMajorPattern(trimmed, n) ==
    /\ trimmed.kind \in {"range", "text"}
    /\ trimmed.alts # <<>>
    /\ LET p == trimmed.alts[1][1]
       IN  /\ p.op \in {"", "^", "~"}
           /\ ~p.v
           /\ p.maj = n
           /\ p.min # NoPart

\* getCoreRangeMajor (the closure inside processRepo)
getCoreRangeMajor(range) ==
    IF ~IsSome(range) \/ ~isString(Get(range)) THEN None
    ELSE LET trimmed == Get(range)
         IN  IF trimmed.kind = "latest" THEN None
             ELSE IF matchesMajorPattern(trimmed, 0) THEN Some(0)
             ELSE IF matchesMajorPattern(trimmed, 1) THEN Some(1)
             ELSE IF matchesMajorPattern(trimmed, 2) THEN Some(2)
             ELSE None

(***************************************************************************)
(* Version selection.                                                      *)
(***************************************************************************)

\* findLatestTagForMajor: tags are {name} objects, sorted by cleaned version.
findLatestTagForMajor(sortedTags, majorVersion) ==
    LET majorTags ==
            SelectSeq(sortedTags,
                      LAMBDA tag : semverMajor(Get(semverClean(tag))) = majorVersion)
        stableTag ==
            FindFirst(majorTags, LAMBDA tag : ~includesHyphen(Get(semverClean(tag))))
    IN  IF Len(majorTags) = 0 THEN None
        ELSE IF IsSome(stableTag) THEN stableTag
        ELSE Some(majorTags[1])

\* The comparator of getLatestGitTags' sort compares the cleaned names.
RECURSIVE InsertTagDesc(_, _)
InsertTagDesc(sorted, x) ==
    IF sorted = <<>> THEN <<x>>
    ELSE IF semverRcompare(Get(semverClean(Head(sorted))), Get(semverClean(x))) <= 0
         THEN <<Head(sorted)>> \o InsertTagDesc(Tail(sorted), x)
         ELSE <<x>> \o sorted

RECURSIVE SortTagsDesc(_)
SortTagsDesc(s) ==
    IF s = <<>> THEN <<>>
    ELSE InsertTagDesc(SortTagsDesc(SubSeq(s, 1, Len(s) - 1)), s[Len(s)])

NoTags == [e \in Epochs |-> None]

\* getLatestGitTags: `data` is the tag names listTags returned, or None when
\* the call failed (the catch branch returns the all-null record).
getLatestGitTags(data) ==
    IF ~IsSome(data) THEN NoTags
    ELSE LET validTags == SelectSeq(Get(data), LAMBDA tag : IsSome(semverClean(tag)))
             sorted == SortTagsDesc(validTags)
         IN  [e \in Epochs |-> findLatestTagForMajor(sorted, e)]

\* findLatestNpmVersionForMajor, on version strings that all parse
\* (semver.major throws on one that does not: see inspectNpm).
findLatestNpmVersionForMajor(sortedVersions, majorVersion) ==
    LET majorVersions ==
            SelectSeq(sortedVersions, LAMBDA ver : semverMajor(ver) = majorVersion)
        stable == FindFirst(majorVersions, LAMBDA ver : ~includesHyphen(ver))
    IN  IF Len(majorVersions) = 0 THEN None
        ELSE IF IsSome(stable) THEN stable
        ELSE Some(majorVersions[1])

\* The package metadata of the index: Object.entries(meta.versions) in key
\* order, each version with its dependencies / peerDependencies entry for
\* the core package.
MetaEntry(ver, deps, peer) == [version |-> ver, dependencies |-> deps, peerDependencies |-> peer]

\* a || b on optional strings
OrElse(a, b) == IF IsSome(a) THEN a ELSE b

\* getCoreRangeFromNpmVersion
getCoreRangeFromNpmVersion(meta, version) ==
    IF ~IsSome(version) THEN None
    ELSE LET hits == SelectSeq(meta, LAMBDA m : m.version = Get(version))
         IN  IF hits = <<>> THEN None
             ELSE OrElse(hits[1].dependencies, hits[1].peerDependencies)

NoNpm ==
    [threw |-> FALSE, v |-> [e \in Epochs |-> None], coreRange |-> [e \in Epochs |-> None]]

\* What a rejected inspectNpm promise carries: semver.rcompare / semver.major
\* raise a TypeError on a string that does not parse, and nothing catches it.
NpmThrew ==
    [threw |-> TRUE, v |-> [e \in Epochs |-> None], coreRange |-> [e \in Epochs |-> None]]

\* inspectNpm: `meta` is the fetched metadata, or None when safeFetchJSON
\* returned null.
inspectNpm(meta) ==
    IF ~IsSome(meta) THEN NoNpm
    ELSE LET versions == [i \in 1..Len(Get(meta)) |-> Get(meta)[i].version]
         IN  IF \E i \in 1..Len(versions) : ~semverValid(versions[i])
             THEN NpmThrew
             ELSE LET sorted == SortDesc(versions)
                      best == [e \in Epochs |-> findLatestNpmVersionForMajor(sorted, e)]
                  IN  [threw |-> FALSE,
                       v |-> best,
                       coreRange |-> [e \in Epochs |->
                                        getCoreRangeFromNpmVersion(Get(meta), best[e])]]

(***************************************************************************)
(* Repository references and the remote reads.                             *)
(***************************************************************************)

\* A catalog value: a JSON value that is a string or not; a string is the
\* sequence of its tokens, "github:" (the prefix), "/" and name characters.
RefString(tokens) == [isString |-> TRUE, tokens |-> tokens]
NonStringValue == [isString |-> FALSE, tokens |-> <<>>]

\* String.prototype.split("/"): the segments between the slashes.
RECURSIVE splitSlash(_)
splitSlash(tokens) ==
    IF \A i \in 1..Len(tokens) : tokens[i] # "/" THEN <<tokens>>
    ELSE LET k == CHOOSE i \in 1..Len(tokens) :
                      tokens[i] = "/" /\ \A j \in 1..(i - 1) : tokens[j] # "/"
         IN  <<SubSeq(tokens, 1, k - 1)>> \o splitSlash(SubSeq(tokens, k + 1, Len(tokens)))

refStartsWithGithub(ref) == Len(ref.tokens) > 0 /\ ref.tokens[1] = "github:"

\* parseGitRef: {owner, repo}, or null.
parseGitRef(ref) ==
    IF ~refStartsWithGithub(ref) THEN None
    ELSE LET repoPath == Tail(ref.tokens)
             parts == splitSlash(repoPath)
             owner == parts[1]
             repo == IF Len(parts) >= 2 THEN parts[2] ELSE <<>>
         IN  IF owner = <<>> \/ repo = <<>> THEN None
             ELSE Some([owner |-> owner, repo |-> repo])

\* getGitHubBranches, after its retries: the names listed, or [] when every
\* attempt failed (`data` is None).
getGitHubBranches(data) == IF IsSome(data) THEN Get(data) ELSE <<>>

NoRepoInfo == [description |-> None, stargazers_count |-> 0]

\* getGitHubRepoInfo, after its retries: the fields of the answer, or the
\* defaults when every attempt failed.
getGitHubRepoInfo(data) == IF IsSome(data) THEN Get(data) ELSE NoRepoInfo

\* A package.json object: its version and its two entries for the core
\* package.
Pkg(version, deps, peer) ==
    [version |-> version, dependencies |-> deps, peerDependencies |-> peer]

\* extractVersionInfo of a manifest that was fetched.
extractVersionInfo(pkg) ==
    [version |-> pkg.version, coreRange |-> OrElse(pkg.dependencies, pkg.peerDependencies)]

\* `coreRange && !coreRange.startsWith("workspace:")` raises a TypeError on a
\* core range that is not a string.
coreRangeCheckThrows(info) == IsSome(info.coreRange) /\ ~isString(Get(info.coreRange))
hasUsableCoreRange(info) ==
    IsSome(info.coreRange) /\ ~startsWith(Get(info.coreRange), "workspace:")

Fulfilled(value, tsFetched) == [status |-> "fulfilled", value |-> value, tsFetched |-> tsFetched]
Rejected(tsFetched) == [status |-> "rejected", value |-> None, tsFetched |-> tsFetched]

\* fetchPackageJSON without the `if (!rootPkg) return null` of line 199: it
\* goes on to typescript/package.json.
fetchPackageJSONWithoutRootCheck(rootPkg, tsPkg) ==
    IF ~IsSome(rootPkg)
    THEN IF IsSome(tsPkg) /\ hasUsableCoreRange(extractVersionInfo(Get(tsPkg)))
         THEN Fulfilled(Some(extractVersionInfo(Get(tsPkg))), TRUE)
         ELSE Fulfilled(None, TRUE)
    ELSE LET rootInfo == extractVersionInfo(Get(rootPkg))
         IN  IF coreRangeCheckThrows(rootInfo) THEN Rejected(FALSE)
             ELSE IF hasUsableCoreRange(rootInfo) THEN Fulfilled(Some(rootInfo), FALSE)
             ELSE IF ~IsSome(tsPkg) THEN Fulfilled(Some(rootInfo), TRUE)
             ELSE LET tsInfo == extractVersionInfo(Get(tsPkg))
                  IN  IF coreRangeCheckThrows(tsInfo) THEN Rejected(TRUE)
                      ELSE IF hasUsableCoreRange(tsInfo) THEN Fulfilled(Some(tsInfo), TRUE)
                      ELSE Fulfilled(Some(rootInfo), TRUE)

\* fetchPackageJSON: `rootPkg` and `tsPkg` are what fetchGitHubFile yields for
\* package.json and typescript/package.json on the ref (None: null).  The
\* result is how its promise settles, and whether the second file was asked
\* for.
fetchPackageJSON(rootPkg, tsPkg) ==
    IF ~IsSome(rootPkg) THEN Fulfilled(None, FALSE)
    ELSE LET rootInfo == extractVersionInfo(Get(rootPkg))
         IN  IF coreRangeCheckThrows(rootInfo) THEN Rejected(FALSE)
             ELSE IF hasUsableCoreRange(rootInfo) THEN Fulfilled(Some(rootInfo), FALSE)
             ELSE IF ~IsSome(tsPkg) THEN Fulfilled(Some(rootInfo), TRUE)
             ELSE LET tsInfo == extractVersionInfo(Get(tsPkg))
                  IN  IF coreRangeCheckThrows(tsInfo) THEN Rejected(TRUE)
                      ELSE IF hasUsableCoreRange(tsInfo) THEN Fulfilled(Some(tsInfo), TRUE)
                      ELSE Fulfilled(Some(rootInfo), TRUE)

(***************************************************************************)
(* processRepo, piece by piece.                                            *)
(***************************************************************************)
CandidateOrder == <<"main", "master", "0.x", "1.x", "2.x", "next">>

includes(seq, x) == \E i \in 1..Len(seq) : seq[i] = x

Issue(type, key, core) == [type |-> type, key |-> key, core |-> core]
NoBranchesIssue == Issue("No branches found", -1, -1)
NoStandardBranchesIssue == Issue("No standard branches found", -1, -1)
MismatchIssue(key, core) == Issue("version mismatch", key, core)

\* branchCandidates: the preference list filtered to the branches listed.
branchCandidatesOf(branches) ==
    SelectSeq(CandidateOrder, LAMBDA b : includes(branches, b))

\* The issues pushed after the branch listing.
branchIssues(branches) ==
    (IF Len(branches) = 0 THEN <<NoBranchesIssue>> ELSE <<>>)
    \o (IF Len(branchCandidatesOf(branches)) = 0 /\ Len(branches) > 0
        THEN <<NoStandardBranchesIssue>> ELSE <<>>)

\* The loop over pkgResults: the manifests that were fulfilled with a value,
\* each with its branch.
RECURSIVE collectPkgs(_, _)
collectPkgs(pkgResults, candidates) ==
    IF pkgResults = <<>> THEN <<>>
    ELSE LET result == Head(pkgResults)
             rest == collectPkgs(Tail(pkgResults), Tail(candidates))
         IN  IF result.status = "fulfilled" /\ IsSome(result.value)
             THEN <<[version |-> Get(result.value).version,
                     coreRange |-> Get(result.value).coreRange,
                     branch |-> Head(candidates)]>> \o rest
             ELSE rest

NoSupport == [e \in Epochs |-> FALSE]
NoBranches == [e \in Epochs |-> None]

\* branchMarks with the version test loosened to "at least e" for every
\* epoch, not only for v2.
branchMarksAtLeast(pkgMajor, coreRange, e) ==
    /\ pkgMajor >= e
    /\ isCompatibleWithMajorVersion(coreRange, e)

\* The condition under which the body of the loop over pkgs assigns for
\* epoch e: `pkgMajor === 0 && ...`, `pkgMajor === 1 && ...`,
\* `pkgMajor >= 2 && satisfiesV2Core`.
branchMarks(pkgMajor, coreRange, e) ==
    /\ IF e = 2 THEN pkgMajor >= 2 ELSE pkgMajor = e
    /\ isCompatibleWithMajorVersion(coreRange, e)

\* One iteration of `for (const pkg of pkgs)`: acc holds the flags and the
\* representative branches.
\* The loop body recording the branch for the epoch of the manifest's
\* version, whether or not its core range is compatible.
branchLoopBodyBranchByVersion(acc, pkg) ==
    IF ~(IsSome(pkg.version) /\ IsSome(pkg.coreRange)) THEN acc
    ELSE LET cleanedVersion == semverClean(Get(pkg.version))
         IN  IF ~IsSome(cleanedVersion) THEN acc
             ELSE LET pkgMajor == semverMajor(Get(cleanedVersion))
                  IN  [supports |->
                          [e \in Epochs |->
                              IF branchMarks(pkgMajor, pkg.coreRange, e)
                              THEN TRUE ELSE acc.supports[e]],
                       supportedBranches |->
                          [e \in Epochs |->
                              IF (IF e = 2 THEN pkgMajor >= 2 ELSE pkgMajor = e)
                              THEN Some(pkg.branch) ELSE acc.supportedBranches[e]]]

branchLoopBody(acc, pkg) ==
    IF ~(IsSome(pkg.version) /\ IsSome(pkg.coreRange)) THEN acc
    ELSE LET cleanedVersion == semverClean(Get(pkg.version))
         IN  IF ~IsSome(cleanedVersion) THEN acc
             ELSE LET pkgMajor == semverMajor(Get(cleanedVersion))
                  IN  [supports |->
                          [e \in Epochs |->
                              IF branchMarks(pkgMajor, pkg.coreRange, e)
                              THEN TRUE ELSE acc.supports[e]],
                       supportedBranches |->
                          [e \in Epochs |->
                              IF branchMarks(pkgMajor, pkg.coreRange, e)
                              THEN Some(pkg.branch) ELSE acc.supportedBranches[e]]]

\* npmLoopBody recording the mismatch without marking the dominant epoch.
npmLoopBodyNoMark(acc, npm, expectedMajor) ==
    LET npmVersion == npm.v[expectedMajor]
        npmCoreRange == npm.coreRange[expectedMajor]
        coreTargetMajor == getCoreRangeMajor(npmCoreRange)
        agrees == isCompatibleWithMajorVersion(npmCoreRange, expectedMajor)
        mismatch == IsSome(coreTargetMajor) /\ Get(coreTargetMajor) # expectedMajor
    IN  IF ~IsSome(npmVersion) \/ ~IsSome(npmCoreRange) THEN acc
        ELSE [supports |-> [e \in Epochs |-> acc.supports[e] \/ (agrees /\ e = expectedMajor)],
              issues |-> IF mismatch
                         THEN Append(acc.issues,
                                     MismatchIssue(expectedMajor, Get(coreTargetMajor)))
                         ELSE acc.issues]

\* npmLoopBody with a mismatch withdrawing the support of the epoch under
\* test.
npmLoopBodyWithdraws(acc, npm, expectedMajor) ==
    LET npmVersion == npm.v[expectedMajor]
        npmCoreRange == npm.coreRange[expectedMajor]
        coreTargetMajor == getCoreRangeMajor(npmCoreRange)
        agrees == isCompatibleWithMajorVersion(npmCoreRange, expectedMajor)
        mismatch == IsSome(coreTargetMajor) /\ Get(coreTargetMajor) # expectedMajor
    IN  IF ~IsSome(npmVersion) \/ ~IsSome(npmCoreRange) THEN acc
        ELSE [supports |->
                 [e \in Epochs |->
                     IF mismatch /\ e = expectedMajor THEN FALSE
                     ELSE \/ acc.supports[e]
                          \/ agrees /\ e = expectedMajor
                          \/ mismatch /\ e = Get(coreTargetMajor)],
              issues |-> IF mismatch
                         THEN Append(acc.issues,
                                     MismatchIssue(expectedMajor, Get(coreTargetMajor)))
                         ELSE acc.issues]

\* npmLoopBody taking the index version alone as support, without asking
\* for a core range.
npmLoopBodyVersionOnly(acc, npm, expectedMajor) ==
    LET npmVersion == npm.v[expectedMajor]
        npmCoreRange == npm.coreRange[expectedMajor]
        coreTargetMajor == getCoreRangeMajor(npmCoreRange)
        mismatch == IsSome(coreTargetMajor) /\ Get(coreTargetMajor) # expectedMajor
    IN  IF ~IsSome(npmVersion) THEN acc
        ELSE [supports |->
                 [e \in Epochs |->
                     \/ acc.supports[e]
                     \/ e = expectedMajor
                     \/ mismatch /\ e = Get(coreTargetMajor)],
              issues |-> IF mismatch
                         THEN Append(acc.issues,
                                     MismatchIssue(expectedMajor, Get(coreTargetMajor)))
                         ELSE acc.issues]

\* One iteration of `for (const {key, expectedMajor} of npmVersionChecks)`:
\* acc holds the flags and the issues.
npmLoopBody(acc, npm, expectedMajor) ==
    LET npmVersion == npm.v[expectedMajor]
        npmCoreRange == npm.coreRange[expectedMajor]
    IN  IF ~IsSome(npmVersion) \/ ~IsSome(npmCoreRange) THEN acc
        ELSE LET cleanedVersion == semverClean(Get(npmVersion))
             IN  IF ~IsSome(cleanedVersion) THEN acc
                 ELSE LET pkgMajor == semverMajor(Get(cleanedVersion))
                          coreTargetMajor == getCoreRangeMajor(npmCoreRange)
                          agrees == pkgMajor = expectedMajor
                                    /\ isCompatibleWithMajorVersion(npmCoreRange, expectedMajor)
                          mismatch == IsSome(coreTargetMajor)
                                      /\ Get(coreTargetMajor) # expectedMajor
                      IN  [supports |->
                              [e \in Epochs |->
                                  \/ acc.supports[e]
                                  \/ agrees /\ e = expectedMajor
                                  \/ mismatch /\ e = Get(coreTargetMajor)],
                           issues |->
                              IF mismatch
                              THEN Append(acc.issues,
                                          MismatchIssue(expectedMajor, Get(coreTargetMajor)))
                              ELSE acc.issues]

\* gitInfo: per epoch the displayed version (the tag, else the index
\* version) and the representative branch.
gitInfoOf(tagInfo, npm, branchOf) ==
    [e \in Epochs |->
        [version |-> OrElse(tagInfo[e], npm.v[e]),
         branch |-> branchOf[e]]]

\* App metadata detection: the first of elizaos.plugin.json, package.json
\* and typescript/elizaos.plugin.json that declares an app (each None when
\* the file is missing or declares none).
appMetaOf(pluginManifest, mainPkg, tsManifest) ==
    OrElse(pluginManifest, OrElse(mainPkg, tsManifest))

\* entryOf with a tag of an epoch counting as support for it.
entryOfTagsSupport(gitInfo, npm, flags, info, appMeta) ==
    [git |-> gitInfo, npm |-> npm,
     supports |-> [e \in DOMAIN flags |-> flags[e] \/ IsSome(gitInfo[e].version)],
     description |-> info.description,
     stargazers_count |-> info.stargazers_count,
     app |-> appMeta]

\* The entry processRepo returns.
entryOf(gitInfo, npm, flags, info, appMeta) ==
    [git |-> gitInfo, npm |-> npm, supports |-> flags,
     description |-> info.description,
     stargazers_count |-> info.stargazers_count,
     app |-> appMeta]

(***************************************************************************)
(* SpecRepo: one call of processRepo, its awaits and loop iterations as    *)
(* steps.  What the remote reads return is chosen when the call awaits     *)
(* them.                                                                   *)
(***************************************************************************)
MaxBranches == 2

GoodRef == RefString(<<"github:", "o", "/", "r">>)
OwnerOnlyRef == RefString(<<"github:", "o">>)

AllBranchNames == <<"0.x", "1.x", "2.x", "dev", "main", "master", "next">>

\* What listBranches may answer: up to MaxBranches names, or failure.
BranchListings ==
    {None} \cup
    {Some(SelectSeq(AllBranchNames, LAMBDA b : b \in S)) :
        S \in {T \in SUBSET {AllBranchNames[i] : i \in 1..Len(AllBranchNames)} :
                  Cardinality(T) <= MaxBranches}}

Caret(maj, min) == OneRange(Prim("^", maj, min, 0, 0))
AtLeast(maj) == OneRange(Prim(">=", maj, 0, 0, 0))

ManifestVersions == {Ver(0, 1, 0), Ver(1, 0, 0), Ver(2, 0, 0), Ver(3, 0, 0)}
ManifestRanges == {Some(Word("latest")), Some(Caret(1, 0)), Some(Caret(2, 0))}

\* The two manifest files of a branch: package.json and
\* typescript/package.json (the second matters only under a root whose core
\* range is a workspace placeholder or missing).
ManifestFiles ==
    {[root |-> None, ts |-> None]}
    \cup {[root |-> Some(Pkg(ver, Some(Caret(1, 0)), None)), ts |-> None] :
             ver \in {None, Some(Malformed)}}
    \cup {[root |-> Some(Pkg(Some(Ver(1, 0, 0)), r, None)), ts |-> None] :
             r \in {None, Some(Word("nonstring"))}}
    \cup {[root |-> Some(Pkg(Some(ver), r, None)), ts |-> None] :
             ver \in ManifestVersions, r \in ManifestRanges}
    \cup {[root |-> Some(Pkg(Some(Ver(1, 0, 0)), Some(Word("workspace")), None)), ts |-> t] :
             t \in {None, Some(Pkg(Some(Ver(2, 0, 0)), Some(Caret(2, 0)), None)),
                    Some(Pkg(Some(Ver(2, 0, 0)), Some(Word("workspace")), None))}}

\* The core ranges the index may hold for the version of epoch e: one
\* anchored to e, one anchored to another epoch, one anchored to none.
NpmRanges(e) == {Caret(e, 1), Caret((e + 1) % 3, 1), AtLeast(1)}

\* What the package index may hold for one epoch: nothing, or one version
\* of that major with or without a core range.
NpmEpochChoices(e) ==
    {<<>>} \cup {<<MetaEntry(Ver(e, 0, 0), r, None)>> :
                   r \in {None} \cup {Some(x) : x \in NpmRanges(e)}}

\* What the package index may answer: failure, metadata with a version key
\* that is no semantic version, or up to one version per epoch.
NpmAnswers ==
    {None, Some(<<MetaEntry(Ver(1, 0, 0), Some(Caret(1, 0)), None),
                  MetaEntry(Malformed, None, None)>>)}
    \cup {Some(c0 \o c1 \o c2) :
             c0 \in NpmEpochChoices(0), c1 \in NpmEpochChoices(1), c2 \in NpmEpochChoices(2)}

TagAnswers == {None, Some(<<[Ver(1, 1, 0) EXCEPT !.v = TRUE], Ver(2, 0, 1)>>)}

RepoAnswers == {None, Some([description |-> Some("text"), stargazers_count |-> 1])}

AppAnswers == {<<None, None, None>>, <<None, Some("app"), None>>}

DefaultBatchSize == 10
DefaultRetryAttempts == 3
DefaultBatchDelayMs == 1000

\* No classifier has been applied.
RangeIdle ==
    /\ rgRange = None
    /\ rgCompat = None
    /\ rgDominant = None

NoCount == [root |-> 0, ts |-> 0]

\* No remote read is being followed.
FetchIdle ==
    /\ fPc = "idle"
    /\ fCall = "none"
    /\ fRetries = DefaultRetryAttempts
    /\ fPath = ""
    /\ fAttempt = 0
    /\ fRoot = None
    /\ fTs = None
    /\ fOut = None
    /\ fTries = NoCount
    /\ fFailures = NoCount
    /\ fWaits = <<>>

\* No batch loop is being followed.
FlightIdle ==
    /\ flPc = "idle"
    /\ flN = 0
    /\ flSize = DefaultBatchSize
    /\ flDelay = DefaultBatchDelayMs
    /\ flI = 0
    /\ flRunning = {}
    /\ flResults = {}
    /\ flReport = {}
    /\ flPauses = <<>>
    /\ flBatches = 0

FirstCalls == {"branches", "tags", "repoInfo", "npm"}

\* No processRepo is being followed call by call.
JoinIdle ==
    /\ jPc = "idle"
    /\ jRef = NonStringValue
    /\ jCalls = [c \in FirstCalls |-> "idle"]
    /\ jFiles = {}

AuxIdle == RangeIdle /\ FetchIdle /\ FlightIdle /\ JoinIdle

\* No call of processRepo is under way.
RepoIdle ==
    /\ rPc = "idle"
    /\ gitRef = GoodRef
    /\ branchCandidates = <<>>
    /\ pkgs = <<>>
    /\ pkgIdx = 0
    /\ supports = NoSupport
    /\ supportedBranches = NoBranches
    /\ issues = <<>>
    /\ gitTagInfo = NoTags
    /\ npmInfo = NoNpm
    /\ repoInfo = NoRepoInfo
    /\ npmIdx = 0
    /\ entry = None
    /\ branchSupports = NoSupport
    /\ hadManifest = FALSE

(***************************************************************************)
(* Catalog keys, objects and their orders.                                 *)
(***************************************************************************)

\* A key is the sequence of its characters.
KeyChars == {" ", "0", "1", "9", "B", "a"}

\* String.prototype.trim.
RECURSIVE trimStart(_)
trimStart(key) == IF key # <<>> /\ Head(key) = " " THEN trimStart(Tail(key)) ELSE key

RECURSIVE trimEnd(_)
trimEnd(key) ==
    IF key # <<>> /\ key[Len(key)] = " " THEN trimEnd(SubSeq(key, 1, Len(key) - 1)) ELSE key

trim(key) == trimEnd(trimStart(key))

\* The UTF-16 code unit of a character (the order of Array.prototype.sort
\* without a comparator).
CodeUnit(c) ==
    CASE c = " " -> 32 [] c = "0" -> 48 [] c = "1" -> 49 [] c = "9" -> 57
      [] c = "B" -> 66 [] c = "a" -> 97

\* The collation weights of a character for localeCompare: the letter
\* first (space, digits, letters), the case after it (lower case before
\* upper case).
Primary(c) ==
    CASE c = " " -> 0 [] c = "0" -> 1 [] c = "1" -> 2 [] c = "9" -> 3
      [] c = "a" -> 4 [] c = "B" -> 5
Tertiary(c) == IF c = "B" THEN 1 ELSE 0

\* Lexicographic comparison of two sequences of numbers: -1, 0 or 1.
RECURSIVE lexCompare(_, _)
lexCompare(a, b) ==
    IF a = <<>> /\ b = <<>> THEN 0
    ELSE IF a = <<>> THEN -1
    ELSE IF b = <<>> THEN 1
    ELSE IF Head(a) < Head(b) THEN -1
    ELSE IF Head(a) > Head(b) THEN 1
    ELSE lexCompare(Tail(a), Tail(b))

localeCompare(a, b) ==
    LET first == lexCompare([i \in 1..Len(a) |-> Primary(a[i])],
                            [i \in 1..Len(b) |-> Primary(b[i])])
    IN  IF first # 0 THEN first
        ELSE lexCompare([i \in 1..Len(a) |-> Tertiary(a[i])],
                        [i \in 1..Len(b) |-> Tertiary(b[i])])

codeUnitCompare(a, b) ==
    lexCompare([i \in 1..Len(a) |-> CodeUnit(a[i])], [i \in 1..Len(b) |-> CodeUnit(b[i])])

\* A key that is a canonical array index ("0", "9", "10"; not "01").
isDigit(c) == c \in {"0", "1", "9"}
isArrayIndex(key) ==
    /\ key # <<>>
    /\ \A i \in 1..Len(key) : isDigit(key[i])
    /\ Len(key) > 1 => key[1] # "0"

RECURSIVE indexValue(_)
indexValue(key) ==
    IF key = <<>> THEN 0
    ELSE 10 * indexValue(SubSeq(key, 1, Len(key) - 1)) + (CodeUnit(key[Len(key)]) - 48)

\* An object is the sequence of its [key, value] properties in the order
\* they are enumerated (Object.keys, Object.entries, JSON.stringify): the
\* array-index keys in ascending numeric order, then the other keys in
\* insertion order.  obj[key] = value replaces the value of a key the
\* object has.
objHas(obj, key) == \E i \in 1..Len(obj) : obj[i].key = key
objPut(obj, key, value) ==
    LET prop == [key |-> key, value |-> value]
    IN  IF objHas(obj, key)
        THEN [i \in 1..Len(obj) |-> IF obj[i].key = key THEN prop ELSE obj[i]]
        ELSE IF isArrayIndex(key)
        THEN LET before == SelectSeq(obj, LAMBDA q : isArrayIndex(q.key)
                                                      /\ indexValue(q.key) < indexValue(key))
             IN  before \o <<prop>> \o SubSeq(obj, Len(before) + 1, Len(obj))
        ELSE Append(obj, prop)

\* The object with the given properties assigned in order.
RECURSIVE fromEntries(_)
fromEntries(props) ==
    IF props = <<>> THEN <<>>
    ELSE objPut(fromEntries(SubSeq(props, 1, Len(props) - 1)),
                props[Len(props)].key, props[Len(props)].value)
objKeys(obj) == [i \in 1..Len(obj) |-> obj[i].key]
objGet(obj, key) == obj[CHOOSE i \in 1..Len(obj) : obj[i].key = key].value

\* entries.sort(([a], [b]) => a.localeCompare(b)): a stable sort.
RECURSIVE insertByLocale(_, _)
insertByLocale(e, sorted) ==
    IF sorted = <<>> THEN <<e>>
    ELSE IF localeCompare(e.key, Head(sorted).key) < 0 THEN <<e>> \o sorted
    ELSE <<Head(sorted)>> \o insertByLocale(e, Tail(sorted))

RECURSIVE sortByLocale(_)
sortByLocale(obj) ==
    IF obj = <<>> THEN <<>>
    ELSE insertByLocale(obj[Len(obj)], sortByLocale(SubSeq(obj, 1, Len(obj) - 1)))

\* Object.keys(report).sort(): by code units.
RECURSIVE insertByCodeUnit(_, _)
insertByCodeUnit(key, sorted) ==
    IF sorted = <<>> THEN <<key>>
    ELSE IF codeUnitCompare(key, Head(sorted)) < 0 THEN <<key>> \o sorted
    ELSE <<Head(sorted)>> \o insertByCodeUnit(key, Tail(sorted))

RECURSIVE sortByCodeUnit(_)
sortByCodeUnit(keys) ==
    IF keys = <<>> THEN <<>>
    ELSE insertByCodeUnit(keys[Len(keys)], sortByCodeUnit(SubSeq(keys, 1, Len(keys) - 1)))

\* Array.prototype.slice(from, to), 0-based, for 0 <= from <= to.
slice(seq, from, to) ==
    SubSeq(seq, from + 1, IF to < Len(seq) THEN to ELSE Len(seq))

(***************************************************************************)
(* processRepo as one call: what it returns, or that it threw, given what  *)
(* the remote services answer.                                             *)
(***************************************************************************)
RECURSIVE branchLoop(_, _)
branchLoop(acc, pkgList) ==
    IF pkgList = <<>> THEN acc
    ELSE branchLoop(branchLoopBody(acc, Head(pkgList)), Tail(pkgList))

npmLoop(acc, npm) == npmLoopBody(npmLoopBody(npmLoopBody(acc, npm, 0), npm, 1), npm, 2)

Threw == [threw |-> TRUE, id |-> <<>>, info |-> None, issues |-> <<>>]

\* answers: the branch listing, the two manifest files every candidate
\* branch holds, the index metadata, the tag names, the repository metadata
\* and the three app metadata files.
processRepo(npmId, ref, answers) ==
    IF ~IsSome(parseGitRef(ref)) THEN Threw
    ELSE LET branches == getGitHubBranches(answers.branches)
             candidates == branchCandidatesOf(branches)
             pkgResults == [i \in 1..Len(candidates) |->
                               fetchPackageJSON(answers.file.root, answers.file.ts)]
             found == collectPkgs(pkgResults, candidates)
             byBranch == branchLoop([supports |-> NoSupport,
                                     supportedBranches |-> NoBranches], found)
             npm == inspectNpm(answers.npm)
         IN  IF npm.threw THEN Threw
             ELSE LET byNpm == npmLoop([supports |-> byBranch.supports,
                                        issues |-> branchIssues(branches)], npm)
                      gitInfo == gitInfoOf(getLatestGitTags(answers.tags), npm,
                                           byBranch.supportedBranches)
                  IN  [threw |-> FALSE,
                       id |-> npmId,
                       info |-> Some(entryOf(gitInfo, npm, byNpm.supports,
                                             getGitHubRepoInfo(answers.info),
                                             appMetaOf(answers.app[1], answers.app[2],
                                                       answers.app[3]))),
                       issues |-> byNpm.issues]

(***************************************************************************)
(* Spec: one run of main, which runs parseRegistry.                        *)
(***************************************************************************)
MaxEntries == 2

\* parseInt(process.env.BATCH_SIZE) || 10: the variable unset or not a
\* number (None), or a number.
batchSizeOf(env) == IF IsSome(env) /\ Get(env) # 0 THEN Get(env) ELSE DefaultBatchSize

EnvBatchSizes == {None, Some(0), Some(1), Some(2)}

Keys == {<<>>, <<" ">>, <<"a">>, <<"B">>, <<"9">>, <<"1", "0">>}

NotGithubRef == RefString(<<"o", "/", "r">>)

CatalogValues == {GoodRef, OwnerOnlyRef, NotGithubRef, NonStringValue}

\* The catalogs as index.json lists them: up to MaxEntries properties with
\* distinct keys.
Catalogs ==
    {c \in UNION {[1..n -> [key : Keys, value : CatalogValues]] : n \in 0..MaxEntries} :
        \A i, j \in DOMAIN c : c[i].key = c[j].key => i = j}

\* Everything answers.
Healthy ==
    [branches |-> Some(<<"main">>),
     file |-> [root |-> Some(Pkg(Some(Ver(1, 0, 0)), Some(Caret(1, 0)), None)), ts |-> None],
     npm |-> Some(<<MetaEntry(Ver(1, 0, 0), Some(Caret(1, 0)), None)>>),
     tags |-> Some(<<Ver(1, 1, 0)>>),
     info |-> Some([description |-> Some("text"), stargazers_count |-> 1]),
     app |-> <<None, None, None>>]

\* One remote signal fails, through all its retries.
BranchesDown == [Healthy EXCEPT !.branches = None]
TagsDown == [Healthy EXCEPT !.tags = None]
RepoInfoDown == [Healthy EXCEPT !.info = None]
ManifestDown == [Healthy EXCEPT !.file = [root |-> None, ts |-> None]]
NpmDown == [Healthy EXCEPT !.npm = None]
OneSignalDown == {BranchesDown, TagsDown, RepoInfoDown, ManifestDown, NpmDown}

\* Nothing fails, and the index holds a version whose core range is
\* anchored to another epoch, or a version key that is no semantic version.
NpmContradicts ==
    [Healthy EXCEPT !.npm = Some(<<MetaEntry(Ver(1, 0, 0), Some(Caret(2, 0)), None)>>)]
NpmMalformed ==
    [Healthy EXCEPT !.npm = Some(<<MetaEntry(Ver(1, 0, 0), Some(Caret(1, 0)), None),
                                   MetaEntry(Malformed, None, None)>>)]

Answers == {Healthy, NpmContradicts, NpmMalformed} \cup OneSignalDown

BatchIdle ==
    /\ bPc = "idle"
    /\ registry = <<>>
    /\ batchSize = DefaultBatchSize
    /\ entries = <<>>
    /\ bi = 0
    /\ report = <<>>
    /\ allIssues = <<>>
    /\ returned = None
    /\ fetched = <<>>
    /\ handed = <<>>

\* The filter of lines 589-597.
passesFilter(e) ==
    /\ e.key # <<>>
    /\ trim(e.key) # <<>>
    /\ e.value.isString
    /\ refStartsWithGithub(e.value)

\* Lines 659-664: main without GITHUB_TOKEN exits.
MainStart ==
    /\ bPc = "main"
    /\ \E token \in BOOLEAN : bPc' = IF token THEN "read" ELSE "exit"
    /\ UNCHANGED <<registry, batchSize, entries, bi, report, allIssues, returned, fetched,
                   handed, selVars, repoVars, auxVars>>

\* Lines 576-606: index.json is read and parsed (or parseRegistry returns
\* null), filtered and sorted.
BatchRead ==
    /\ bPc = "read"
    /\ \E readable \in BOOLEAN :
         IF readable
         THEN /\ entries' = sortByLocale(SelectSeq(registry, passesFilter))
              /\ bPc' = "loop"
         ELSE /\ entries' = entries
              /\ bPc' = "returnedNull"
    /\ bi' = 0
    /\ UNCHANGED <<registry, batchSize, report, allIssues, returned, fetched, handed,
                   selVars, repoVars, auxVars>>

RECURSIVE collectResults(_, _)
collectResults(acc, results) ==
    IF results = <<>> THEN acc
    ELSE LET r == Head(results)
         IN  collectResults(
                 [report |-> objPut(acc.report, r.id, Get(r.info)),
                  allIssues |-> IF Len(r.issues) > 0
                                THEN objPut(acc.allIssues, r.id, r.issues)
                                ELSE acc.allIssues],
                 Tail(results))

\* Lines 609-633: one batch.  Every task of the batch runs; Promise.all
\* rejects, and parseRegistry with it, when one of them throws.
BatchStep ==
    /\ bPc = "loop"
    /\ bi < Len(entries)
    /\ LET batch == slice(entries, bi, bi + batchSize)
       IN  \E answers \in [1..Len(batch) -> Answers] :
              LET results == [k \in 1..Len(batch) |->
                                 processRepo(batch[k].key, batch[k].value, answers[k])]
              IN  /\ handed' = handed \o [k \in 1..Len(batch) |-> batch[k].value]
                  /\ fetched' = fetched \o [k \in 1..Len(batch) |->
                                              [key |-> batch[k].key, value |-> answers[k]]]
                  /\ IF \E k \in 1..Len(batch) : results[k].threw
                     THEN /\ bPc' = "rejected"
                          /\ UNCHANGED <<report, allIssues, bi>>
                     ELSE LET acc == collectResults([report |-> report,
                                                     allIssues |-> allIssues], results)
                          IN  /\ report' = acc.report
                              /\ allIssues' = acc.allIssues
                              /\ bi' = bi + batchSize
                              /\ bPc' = bPc
    /\ UNCHANGED <<registry, batchSize, entries, returned, selVars, repoVars, auxVars>>

\* Lines 635-654: the summary of issues, the report sorted by key, the
\* return.
BatchReturn ==
    /\ bPc = "loop"
    /\ bi >= Len(entries)
    /\ LET keys == sortByCodeUnit(objKeys(report))
       IN  returned' = Some(fromEntries([k \in 1..Len(keys) |->
                                          [key |-> keys[k],
                                           value |-> objGet(report, keys[k])]]))
    /\ bPc' = "returned"
    /\ UNCHANGED <<registry, batchSize, entries, bi, report, allIssues, fetched, handed,
                   selVars, repoVars, auxVars>>

\* Lines 675-679: main writes generated-registry.json.
MainWrite ==
    /\ bPc = "returned"
    /\ bPc' = "written"
    /\ UNCHANGED <<registry, batchSize, entries, bi, report, allIssues, returned, fetched,
                   handed, selVars, repoVars, auxVars>>

\* Lines 670-673 and 680-683: a null result or a rejection ends main with
\* exit code 1 and nothing written.
MainFail ==
    /\ bPc \in {"returnedNull", "rejected"}
    /\ bPc' = "exit"
    /\ UNCHANGED <<registry, batchSize, entries, bi, report, allIssues, returned, fetched,
                   handed, selVars, repoVars, auxVars>>

Init ==
    /\ bPc = "main"
    /\ registry \in {fromEntries(c) : c \in Catalogs}
    /\ batchSize \in {batchSizeOf(env) : env \in EnvBatchSizes}
    /\ entries = <<>>
    /\ bi = 0
    /\ report = <<>>
    /\ allIssues = <<>>
    /\ returned = None
    /\ fetched = <<>>
    /\ handed = <<>>
    /\ RepoIdle
    /\ selPc = "idle" /\ selVersions = <<>> /\ selNpm = None /\ selTags = None
    /\ AuxIdle

Next ==
    \/ MainStart
    \/ BatchRead
    \/ BatchStep
    \/ BatchReturn
    \/ MainWrite
    \/ MainFail

Spec == Init /\ [][Next]_vars

\* Lines 329-344: parse the reference (throwing on null) and start the
\* four remote calls.
RepoStart ==
    /\ rPc = "start"
    /\ rPc' = IF IsSome(parseGitRef(gitRef)) THEN "branches" ELSE "threw"
    /\ UNCHANGED <<gitRef, branchCandidates, pkgs, pkgIdx, supports, supportedBranches,
                   issues, gitTagInfo, npmInfo, repoInfo, npmIdx, entry, branchSupports,
                   hadManifest, selVars, batchVars, auxVars>>

hasBoth(pkg) == IsSome(pkg.version) /\ IsSome(pkg.coreRange)

\* Lines 347-383: the branch listing arrives, the manifests of the candidate
\* branches are fetched and settle, pkgs is built.
RepoBranches ==
    /\ rPc = "branches"
    /\ \E data \in BranchListings :
         LET branches == getGitHubBranches(data)
             candidates == branchCandidatesOf(branches)
         IN  \E files \in [1..Len(candidates) -> ManifestFiles] :
                LET pkgResults == [i \in 1..Len(candidates) |->
                                      fetchPackageJSON(files[i].root, files[i].ts)]
                IN  /\ issues' = issues \o branchIssues(branches)
                    /\ branchCandidates' = candidates
                    /\ pkgs' = collectPkgs(pkgResults, candidates)
    /\ pkgIdx' = 1
    /\ rPc' = "branchLoop"
    /\ UNCHANGED <<gitRef, supports, supportedBranches, gitTagInfo, npmInfo, repoInfo,
                   npmIdx, entry, branchSupports, hadManifest, selVars, batchVars, auxVars>>

\* Lines 385-412: one iteration of the loop over pkgs.
RepoBranchLoop ==
    /\ rPc = "branchLoop"
    /\ pkgIdx <= Len(pkgs)
    /\ LET acc == branchLoopBody([supports |-> supports,
                                  supportedBranches |-> supportedBranches], pkgs[pkgIdx])
       IN  /\ supports' = acc.supports
           /\ supportedBranches' = acc.supportedBranches
    /\ hadManifest' = (hadManifest \/ hasBoth(pkgs[pkgIdx]))
    /\ pkgIdx' = pkgIdx + 1
    /\ UNCHANGED <<rPc, gitRef, branchCandidates, pkgs, issues, gitTagInfo, npmInfo,
                   repoInfo, npmIdx, entry, branchSupports, selVars,
                   batchVars, auxVars>>

\* The loop over pkgs ends; pkgs is not read again.
RepoBranchLoopEnd ==
    /\ rPc = "branchLoop"
    /\ pkgIdx > Len(pkgs)
    /\ rPc' = "join"
    /\ branchSupports' = supports
    /\ pkgs' = <<>>
    /\ pkgIdx' = 0
    /\ UNCHANGED <<gitRef, branchCandidates, supports, supportedBranches, issues,
                   gitTagInfo, npmInfo, repoInfo, npmIdx, entry, hadManifest, selVars, batchVars, auxVars>>

\* Line 414: the tags, the index information and the repository metadata
\* are awaited together; a rejected inspectNpm rejects processRepo.  (What
\* the tag and metadata calls answered is not read before gitInfo and the
\* entry are built: RepoAssemble chooses it.)
RepoJoin ==
    /\ rPc = "join"
    /\ \E meta \in NpmAnswers :
         LET npm == inspectNpm(meta)
         IN  IF npm.threw
             THEN rPc' = "threw" /\ UNCHANGED npmInfo
             ELSE rPc' = "npmLoop" /\ npmInfo' = npm
    /\ npmIdx' = 0
    /\ UNCHANGED <<gitRef, branchCandidates, pkgs, pkgIdx, supports, supportedBranches,
                   issues, gitTagInfo, repoInfo, entry, branchSupports, hadManifest,
                   selVars, batchVars, auxVars>>

\* Lines 440-464: one iteration of the loop over npmVersionChecks.
RepoNpmLoop ==
    /\ rPc = "npmLoop"
    /\ npmIdx \in Epochs
    /\ LET acc == npmLoopBody([supports |-> supports, issues |-> issues], npmInfo, npmIdx)
       IN  /\ supports' = acc.supports
           /\ issues' = acc.issues
    /\ npmIdx' = npmIdx + 1
    /\ UNCHANGED <<rPc, gitRef, branchCandidates, pkgs, pkgIdx, supportedBranches,
                   gitTagInfo, npmInfo, repoInfo, entry, branchSupports, hadManifest,
                   selVars, batchVars, auxVars>>

\* Lines 466-569: gitInfo, the app metadata reads, the entry, the return.
RepoAssemble ==
    /\ rPc = "npmLoop"
    /\ npmIdx \notin Epochs
    /\ \E tags \in TagAnswers, info \in RepoAnswers, app \in AppAnswers :
         /\ gitTagInfo' = getLatestGitTags(tags)
         /\ repoInfo' = getGitHubRepoInfo(info)
         /\ entry' = Some(entryOf(gitInfoOf(gitTagInfo', npmInfo, supportedBranches),
                                  npmInfo, supports, repoInfo',
                                  appMetaOf(app[1], app[2], app[3])))
    /\ rPc' = "done"
    /\ UNCHANGED <<gitRef, branchCandidates, pkgs, pkgIdx, supports, supportedBranches,
                   issues, npmInfo, npmIdx, branchSupports, hadManifest, selVars, batchVars, auxVars>>

RepoInit ==
    /\ rPc = "start"
    /\ gitRef \in {GoodRef, OwnerOnlyRef}
    /\ branchCandidates = <<>>
    /\ pkgs = <<>>
    /\ pkgIdx = 0
    /\ supports = NoSupport
    /\ supportedBranches = NoBranches
    /\ issues = <<>>
    /\ gitTagInfo = NoTags
    /\ npmInfo = NoNpm
    /\ repoInfo = NoRepoInfo
    /\ npmIdx = 0
    /\ entry = None
    /\ branchSupports = NoSupport
    /\ hadManifest = FALSE
    /\ selPc = "idle" /\ selVersions = <<>> /\ selNpm = None /\ selTags = None
    /\ BatchIdle
    /\ AuxIdle

RepoNext ==
    \/ RepoStart
    \/ RepoBranches
    \/ RepoBranchLoop
    \/ RepoBranchLoopEnd
    \/ RepoJoin
    \/ RepoNpmLoop
    \/ RepoAssemble

SpecRepo == RepoInit /\ [][RepoNext]_vars

(***************************************************************************)
(* SpecRange: isCompatibleWithMajorVersion and getCoreRangeMajor applied   *)
(* to one raw core range.                                                  *)
(***************************************************************************)

\* A primitive as it can be written: a part that is left out leaves out the
\* parts after it, and a pre-release tag follows three numbers.
Writable(p) ==
    /\ p.min = NoPart => p.pat = NoPart
    /\ p.pre > 0 => ~isX(p.maj) /\ ~isX(p.min) /\ ~isX(p.pat)

RangeOps == {"", "=", "^", "~", ">=", ">", "<", "<="}

Primitives ==
    {p \in {Prim(op, maj, min, pat, pre) :
               op \in RangeOps, maj \in (0..MaxMajor) \cup {X},
               min \in (0..MaxMinor) \cup {X, NoPart}, pat \in {0, X, NoPart},
               pre \in 0..(MaxPre - 1)} : Writable(p)}

\* The primitives a second comparator or alternative is drawn from.
SecondPrimitives ==
    {Prim(op, maj, 0, 0, 0) : op \in {"^", "<", ">="}, maj \in 0..MaxMajor}

\* The raw core ranges: absent, a value that is no string, the words and
\* prefixes the script looks for, text that is no range, and ranges of one
\* primitive, of two comparators and of two alternatives.
RawRanges ==
    {None}
    \cup {Some(Word(k)) : k \in {"nonstring", "latest", "workspace", "http", "git", "file",
                                 "text"}}
    \cup {Some(TextStartingWith(p)) : p \in {q \in Primitives : q.pat = 0 /\ q.pre = 0}}
    \cup {Some(OneRange(p)) : p \in Primitives}
    \cup {Some(RangeStr(<< <<p, q>> >>)) :
             p \in {Prim("^", maj, 0, 0, 0) : maj \in 0..MaxMajor}, q \in SecondPrimitives}
    \cup {Some(RangeStr(<< <<p>>, <<q>> >>)) :
             p \in {Prim("^", maj, 0, 0, 0) : maj \in 0..MaxMajor}, q \in SecondPrimitives}

RangeInit ==
    /\ rgRange \in RawRanges
    /\ rgCompat = None
    /\ rgDominant = None
    /\ RepoIdle
    /\ BatchIdle
    /\ FetchIdle
    /\ FlightIdle
    /\ JoinIdle
    /\ selPc = "idle" /\ selVersions = <<>> /\ selNpm = None /\ selTags = None

\* isCompatibleWithMajorVersion(rgRange, N) for every major N.
RangeCompat ==
    /\ rgCompat = None
    /\ rgCompat' = Some([n \in 0..MaxMajor |-> isCompatibleWithMajorVersion(rgRange, n)])
    /\ UNCHANGED <<rgRange, rgDominant, selVars, repoVars, batchVars, fetchVars,
                   flightVars, joinVars>>

\* getCoreRangeMajor(rgRange).
RangeDominant ==
    /\ rgDominant = None
    /\ rgDominant' = Some(getCoreRangeMajor(rgRange))
    /\ UNCHANGED <<rgRange, rgCompat, selVars, repoVars, batchVars, fetchVars,
                   flightVars, joinVars>>

RangeNext == RangeCompat \/ RangeDominant

SpecRange == RangeInit /\ [][RangeNext]_vars

(***************************************************************************)
(* SpecFetch: one remote read followed request by request:                 *)
(* getGitHubBranches, getLatestGitTags, getGitHubRepoInfo, safeFetchJSON   *)
(* (the package index) or fetchPackageJSON with its two fetchGitHubFile    *)
(* calls.                                                                  *)
(***************************************************************************)

\* parseInt(process.env.RETRY_ATTEMPTS) || 3.
retryAttemptsOf(env) == IF IsSome(env) /\ Get(env) # 0 THEN Get(env) ELSE DefaultRetryAttempts

EnvRetryAttempts == {None, Some(0), Some(1), Some(2), Some(4)}

Calls == {"branches", "tags", "repoInfo", "npm", "manifest"}

RootPath == "package.json"
TsPath == "typescript/package.json"

\* The reads written as `for (attempt = 1; attempt <= retries; attempt++)`
\* with a try/catch inside; the others are one try/catch.
hasRetryLoop(call) == call \in {"branches", "repoInfo", "manifest"}

\* The `retries` the loop runs with: CONFIG.RETRY_ATTEMPTS by default, 1
\* for typescript/package.json.
retriesOf(call, path, configured) ==
    IF ~hasRetryLoop(call) THEN 1
    ELSE IF path = TsPath THEN 1
    ELSE configured

\* The core ranges a manifest file may carry.
FileRanges == {None, Some(Caret(1, 0)), Some(Word("workspace")), Some(Word("nonstring"))}

\* How one request may end: it throws, it answers without content (a
\* directory), or it answers.
Outcome(kind, pkg) == [kind |-> kind, pkg |-> pkg]
Outcomes(call, path) ==
    IF call # "manifest" THEN {Outcome("fail", None), Outcome("ok", None)}
    ELSE {Outcome("fail", None), Outcome("nocontent", None)}
         \cup {Outcome("ok", Some(Pkg(Some(IF path = RootPath THEN Ver(1, 0, 0)
                                             ELSE Ver(2, 0, 0)), r, None))) :
                  r \in FileRanges}

fileKey(path) == IF path = TsPath THEN "ts" ELSE "root"

\* A backoff growing by a second per attempt.
backoffMsLinear(attempt) == 1000 * attempt

\* The backoff after the failed attempt: 1000 * Math.pow(2, attempt - 1).
backoffMs(attempt) == 1000 * 2 ^ (attempt - 1)

FetchInit ==
    /\ fPc = "start"
    /\ fCall \in Calls
    /\ fRetries \in {retryAttemptsOf(env) : env \in EnvRetryAttempts}
    /\ fPath = ""
    /\ fAttempt = 0
    /\ fRoot = None
    /\ fTs = None
    /\ fOut = None
    /\ fTries = NoCount
    /\ fFailures = NoCount
    /\ fWaits = <<>>
    /\ RangeIdle
    /\ FlightIdle
    /\ JoinIdle
    /\ RepoIdle
    /\ BatchIdle
    /\ selPc = "idle" /\ selVersions = <<>> /\ selNpm = None /\ selTags = None

\* The read is called and issues its first request.
FetchStart ==
    /\ fPc = "start"
    /\ fPc' = "try"
    /\ fPath' = IF fCall = "manifest" THEN RootPath ELSE ""
    /\ fAttempt' = 1
    /\ fTries' = [fTries EXCEPT !.root = 1]
    /\ UNCHANGED <<fCall, fRetries, fRoot, fTs, fOut, fFailures, fWaits, rangeVars, selVars,
                   repoVars, batchVars, flightVars, joinVars>>

\* What the read returns when its request answered `o` (or failed for the
\* last time): a listing or metadata ("data"), or the absent value.
returnOf(o) == IF o.kind = "ok" THEN Some("data") ELSE None

\* A request settles.  A failure below the last attempt starts the
\* backoff; otherwise the call returns, and fetchPackageJSON goes on: after
\* package.json to typescript/package.json when it asks for it, after that
\* to its result.
FetchTry ==
    /\ fPc = "try"
    /\ \E o \in Outcomes(fCall, fPath) :
         /\ fFailures' = IF o.kind = "fail"
                         THEN [fFailures EXCEPT ![fileKey(fPath)] = @ + 1]
                         ELSE fFailures
         /\ IF /\ o.kind = "fail"
               /\ hasRetryLoop(fCall)
               /\ fAttempt # retriesOf(fCall, fPath, fRetries)
            THEN /\ fPc' = "wait"
                 /\ fWaits' = Append(fWaits, backoffMs(fAttempt))
                 /\ UNCHANGED <<fPath, fAttempt, fRoot, fTs, fOut, fTries>>
            ELSE /\ fWaits' = fWaits
                 /\ IF fCall # "manifest"
                    THEN /\ fOut' = Some(returnOf(o))
                         /\ fPc' = "done"
                         /\ UNCHANGED <<fPath, fAttempt, fRoot, fTs, fTries>>
                    ELSE IF fPath = RootPath
                    THEN /\ fRoot' = Some(o.pkg)
                         /\ IF fetchPackageJSON(o.pkg, None).tsFetched
                            THEN /\ fPath' = TsPath
                                 /\ fAttempt' = 1
                                 /\ fTries' = [fTries EXCEPT !.ts = 1]
                                 /\ fPc' = "try"
                                 /\ UNCHANGED <<fTs, fOut>>
                            ELSE /\ fOut' = Some(fetchPackageJSON(o.pkg, None))
                                 /\ fPc' = "done"
                                 /\ UNCHANGED <<fPath, fAttempt, fTs, fTries>>
                    ELSE /\ fTs' = Some(o.pkg)
                         /\ fOut' = Some(fetchPackageJSON(Get(fRoot), o.pkg))
                         /\ fPc' = "done"
                         /\ UNCHANGED <<fPath, fAttempt, fRoot, fTries>>
    /\ UNCHANGED <<fCall, fRetries, rangeVars, selVars, repoVars, batchVars, flightVars, joinVars>>

\* The backoff ends: the next attempt issues its request.
FetchBackoff ==
    /\ fPc = "wait"
    /\ fPc' = "try"
    /\ fAttempt' = fAttempt + 1
    /\ fTries' = [fTries EXCEPT ![fileKey(fPath)] = @ + 1]
    /\ UNCHANGED <<fCall, fRetries, fPath, fRoot, fTs, fOut, fFailures, fWaits, rangeVars,
                   selVars, repoVars, batchVars, flightVars, joinVars>>

FetchNext == FetchStart \/ FetchTry \/ FetchBackoff

SpecFetch == FetchInit /\ [][FetchNext]_vars

(***************************************************************************)
(* SpecFlight: the batch loop of parseRegistry (lines 609-633) followed    *)
(* task by task.  An entry is named by its position in the sorted          *)
(* `entries`; what processRepo computes for it is left to Spec.            *)
(***************************************************************************)
MaxFlightEntries == 4
\* The batches followed, for a loop that does not end by itself.
MaxLoopBatches == 6

\* parseInt(process.env.BATCH_DELAY_MS) || 1000.
batchDelayOf(env) == IF IsSome(env) /\ Get(env) # 0 THEN Get(env) ELSE DefaultBatchDelayMs

EnvBatchDelays == {None, Some(0), Some(500)}

Min(a, b) == IF a < b THEN a ELSE b

Max(a, b) == IF a > b THEN a ELSE b

\* Array.prototype.slice's reading of an index: a negative one counts from
\* the end, and the result is clamped to 0..n.
sliceIndex(k, n) == IF k < 0 THEN Max(n + k, 0) ELSE Min(k, n)

\* entries.slice(i, i + batchSize), as positions (1-based).
batchAt(i, size, n) == (sliceIndex(i, n) + 1)..sliceIndex(i + size, n)

\* Line 630: a delay follows the batch when entries remain.
needsPauseAlways(i, size, n) == TRUE

needsPause(i, size, n) == i + size < n

FlightInit ==
    /\ flPc = "start"
    /\ flN \in 0..MaxFlightEntries
    /\ flSize \in {batchSizeOf(env) : env \in EnvBatchSizes}
    /\ flDelay \in {batchDelayOf(env) : env \in EnvBatchDelays}
    /\ flI = 0
    /\ flRunning = {}
    /\ flResults = {}
    /\ flReport = {}
    /\ flPauses = <<>>
    /\ flBatches = 0
    /\ RangeIdle
    /\ FetchIdle
    /\ JoinIdle
    /\ RepoIdle
    /\ BatchIdle
    /\ selPc = "idle" /\ selVersions = <<>> /\ selNpm = None /\ selTags = None

\* The loop test at position i: the next batch is sliced and every task of
\* it is started (batch.map), or the loop is left.
enterLoop(i) ==
    IF i < flN
    THEN /\ flBatches < MaxLoopBatches
         /\ flRunning' = batchAt(i, flSize, flN)
         /\ flBatches' = flBatches + 1
         /\ flPc' = "await"
    ELSE /\ flPc' = "done"
         /\ UNCHANGED <<flRunning, flBatches>>

\* Lines 604-620: the loop is entered with i = 0.
FlightStart ==
    /\ flPc = "start"
    /\ flI' = 0
    /\ enterLoop(0)
    /\ UNCHANGED <<flN, flSize, flDelay, flResults, flReport, flPauses, rangeVars, fetchVars,
                   selVars, repoVars, batchVars,
                   joinVars>>

\* One processRepo of the batch returns its [npmId, entry, issues].
TaskFulfil ==
    /\ flPc = "await"
    /\ \E k \in flRunning :
         /\ flRunning' = flRunning \ {k}
         /\ flResults' = flResults \cup {k}
    /\ UNCHANGED <<flPc, flN, flSize, flDelay, flI, flReport, flPauses, flBatches, rangeVars,
                   fetchVars, selVars, repoVars, batchVars,
                   joinVars>>

\* One processRepo of the batch throws: Promise.all rejects at once, with
\* the other tasks still in flight, and parseRegistry with it.
TaskReject ==
    /\ flPc = "await"
    /\ \E k \in flRunning : flRunning' = flRunning \ {k}
    /\ flPc' = "rejected"
    /\ UNCHANGED <<flN, flSize, flDelay, flI, flResults, flReport, flPauses, flBatches,
                   rangeVars, fetchVars, selVars, repoVars, batchVars,
                   joinVars>>

\* Lines 620-632: Promise.all fulfils once every task has; the results are
\* folded into report and allIssues; the delay is started when entries
\* remain, otherwise the loop goes on (and ends).
BatchFold ==
    /\ flPc = "await"
    /\ flRunning = {}
    /\ flReport' = flReport \cup flResults
    /\ flResults' = {}
    /\ IF needsPause(flI, flSize, flN)
       THEN /\ flPc' = "pause"
            /\ UNCHANGED <<flI, flRunning, flBatches>>
       ELSE /\ flI' = flI + flSize
            /\ enterLoop(flI + flSize)
    /\ UNCHANGED <<flN, flSize, flDelay, flPauses, rangeVars, fetchVars, selVars, repoVars,
                   batchVars,
                   joinVars>>

\* The delay has elapsed: i += batchSize, and the loop goes on.
PauseElapse ==
    /\ flPc = "pause"
    /\ flPauses' = Append(flPauses, flDelay)
    /\ flI' = flI + flSize
    /\ enterLoop(flI + flSize)
    /\ UNCHANGED <<flN, flSize, flDelay, flResults, flReport, rangeVars, fetchVars, selVars,
                   repoVars, batchVars,
                   joinVars>>

\* SpecLoop: the same loop, for every BATCH_SIZE the environment can give.
EnvLoopBatchSizes == EnvBatchSizes \cup {Some(-1), Some(-2)}

LoopInit ==
    /\ flPc = "start"
    /\ flN \in 0..MaxFlightEntries
    /\ flSize \in {batchSizeOf(env) : env \in EnvLoopBatchSizes}
    /\ flDelay \in {batchDelayOf(env) : env \in EnvBatchDelays}
    /\ flI = 0
    /\ flRunning = {}
    /\ flResults = {}
    /\ flReport = {}
    /\ flPauses = <<>>
    /\ flBatches = 0
    /\ RangeIdle
    /\ FetchIdle
    /\ JoinIdle
    /\ RepoIdle
    /\ BatchIdle
    /\ selPc = "idle" /\ selVersions = <<>> /\ selNpm = None /\ selTags = None

FlightNext == FlightStart \/ TaskFulfil \/ TaskReject \/ BatchFold \/ PauseElapse

SpecFlight == FlightInit /\ [][FlightNext]_vars

SpecLoop == LoopInit /\ [][FlightNext]_vars

(***************************************************************************)
(* SpecJoin: the remote calls of one processRepo as they overlap: the four *)
(* calls started at lines 341-344, the fetchPackageJSON calls of lines     *)
(* 358-361 and the awaits of lines 347, 361 and 414.  What the calls       *)
(* answer is left to SpecRepo and SpecFetch; here only how they settle.    *)
(***************************************************************************)

\* How a call may settle: with its data, with its absent/default value
\* after its own catch, or, for inspectNpm (whose sort is outside any try),
\* by rejecting.
Settlements(c) == IF c = "npm" THEN {"ok", "absent", "rejected"} ELSE {"ok", "absent"}

Joined == {"tags", "npm", "repoInfo"}

JoinInit ==
    /\ jPc = "start"
    /\ jRef \in {GoodRef, OwnerOnlyRef}
    /\ jCalls = [c \in FirstCalls |-> "idle"]
    /\ jFiles = {}
    /\ RangeIdle
    /\ FetchIdle
    /\ FlightIdle
    /\ RepoIdle
    /\ BatchIdle
    /\ selPc = "idle" /\ selVersions = <<>> /\ selNpm = None /\ selTags = None

\* Lines 328-347: the reference is parsed, the four calls are started, the
\* branch listing is awaited.
JoinStart ==
    /\ jPc = "start"
    /\ IF IsSome(parseGitRef(jRef))
       THEN /\ jCalls' = [c \in FirstCalls |-> "pending"]
            /\ jPc' = "awaitBranches"
       ELSE /\ jPc' = "threw"
            /\ UNCHANGED jCalls
    /\ UNCHANGED <<jRef, jFiles, rangeVars, fetchVars, flightVars, selVars, repoVars,
                   batchVars>>

\* The branch listing settles; lines 347-361 run: the candidates are
\* filtered and fetchPackageJSON is called for each of them.
BranchesSettle ==
    /\ jPc = "awaitBranches"
    /\ jCalls["branches"] = "pending"
    /\ \E data \in BranchListings :
         /\ jCalls' = [jCalls EXCEPT !["branches"] = IF IsSome(data) THEN "ok" ELSE "absent"]
         /\ LET candidates == branchCandidatesOf(getGitHubBranches(data))
            IN  jFiles' = {candidates[i] : i \in 1..Len(candidates)}
    /\ jPc' = "awaitManifests"
    /\ UNCHANGED <<jRef, rangeVars, fetchVars, flightVars, selVars, repoVars, batchVars>>

\* The tag listing, the repository metadata or the index settles.  A
\* rejection of inspectNpm while processRepo has not reached line 414 has
\* no handler: the runtime either ends the process or only warns.
OtherSettle ==
    /\ jPc \in {"awaitBranches", "awaitManifests", "awaitJoin"}
    /\ \E c \in Joined : \E how \in Settlements(c) :
         /\ jCalls[c] = "pending"
         /\ jCalls' = [jCalls EXCEPT ![c] = how]
         /\ IF how = "rejected" /\ jPc # "awaitJoin"
            THEN jPc' \in {jPc, "crashed"}
            ELSE jPc' = jPc
    /\ UNCHANGED <<jRef, jFiles, rangeVars, fetchVars, flightVars, selVars, repoVars,
                   batchVars>>

\* One fetchPackageJSON settles (Promise.allSettled takes either way).
ManifestSettle ==
    /\ jPc = "awaitManifests"
    /\ \E b \in jFiles : jFiles' = jFiles \ {b}
    /\ UNCHANGED <<jPc, jRef, jCalls, rangeVars, fetchVars, flightVars, selVars, repoVars,
                   batchVars>>

\* Lines 361-414: every fetchPackageJSON has settled; the loop over pkgs
\* runs and the three other calls are awaited.
ManifestsJoined ==
    /\ jPc = "awaitManifests"
    /\ jFiles = {}
    /\ jPc' = "awaitJoin"
    /\ UNCHANGED <<jRef, jCalls, jFiles, rangeVars, fetchVars, flightVars, selVars, repoVars,
                   batchVars>>

\* Lines 414-569: the three calls have settled; processRepo rejects with
\* inspectNpm, or goes on to build the entry.
JoinContinue ==
    /\ jPc = "awaitJoin"
    /\ \A c \in Joined : jCalls[c] # "pending"
    /\ jPc' = IF jCalls["npm"] = "rejected" THEN "threw" ELSE "done"
    /\ UNCHANGED <<jRef, jCalls, jFiles, rangeVars, fetchVars, flightVars, selVars, repoVars,
                   batchVars>>

JoinNext ==
    \/ JoinStart
    \/ BranchesSettle
    \/ OtherSettle
    \/ ManifestSettle
    \/ ManifestsJoined
    \/ JoinContinue

SpecJoin == JoinInit /\ [][JoinNext]_vars

(***************************************************************************)
(* SpecSel: the two selectors applied to one collection of version         *)
(* strings (as the keys of the index metadata, and as tag names).          *)
(***************************************************************************)
DistinctSeqs(U, n) ==
    {s \in UNION {[1..k -> U] : k \in 0..n} : \A i, j \in DOMAIN s : s[i] = s[j] => i = j}

BareMeta(versions) == [i \in 1..Len(versions) |-> MetaEntry(versions[i], None, None)]

SelInit ==
    /\ selPc = "start"
    /\ selVersions \in DistinctSeqs(VersionStrings, MaxVersions)
    /\ selNpm = None
    /\ selTags = None
    /\ RepoIdle
    /\ BatchIdle
    /\ AuxIdle

SelInspectNpm ==
    /\ selNpm = None
    /\ selNpm' = Some(inspectNpm(Some(BareMeta(selVersions))))
    /\ selPc' = IF selTags # None THEN "done" ELSE selPc
    /\ UNCHANGED <<selVersions, selTags, repoVars, batchVars, auxVars>>

SelGetLatestGitTags ==
    /\ selTags = None
    /\ selTags' = Some(getLatestGitTags(Some(selVersions)))
    /\ selPc' = IF selNpm # None THEN "done" ELSE selPc
    /\ UNCHANGED <<selVersions, selNpm, repoVars, batchVars, auxVars>>

SelNext == SelInspectNpm \/ SelGetLatestGitTags

SpecSel == SelInit /\ [][SelNext]_vars

(***************************************************************************)
(* Claims about version selection (checked under SpecSel).                 *)
(***************************************************************************)
WellFormedOnly(versions) == SelectSeq(versions, LAMBDA ver : semverValid(ver))

\* A version string with no pre-release suffix, by semantic-version rules
\* (build metadata is not a pre-release suffix).
IsStable(ver) == ver.pre = 0

\* `best` is what the specification's selectBest yields on `versions` for
\* epoch n: absent iff no version has major n; else a version of major n,
\* the highest stable one when one exists, else the highest of all.
IsBestFor(best, versions, n) ==
    LET S == {versions[i] : i \in {j \in 1..Len(versions) : versions[j].maj = n}}
    IN  /\ IsSome(best) <=> S # {}
        /\ IsSome(best) =>
              /\ Get(best) \in S
              /\ IF \E s \in S : IsStable(s)
                 THEN /\ IsStable(Get(best))
                      /\ \A s \in S : IsStable(s) => semverCompare(Get(best), s) >= 0
                 ELSE \A s \in S : semverCompare(Get(best), s) >= 0

\* C4: a malformed version string in the collection is excluded and never
\* causes a failure: inspectNpm and getLatestGitTags complete, with the
\* result they give on the collection without its malformed strings.
MalformedVersionsAreExcluded ==
    /\ IsSome(selNpm) =>
          /\ ~Get(selNpm).threw
          /\ Get(selNpm) = inspectNpm(Some(BareMeta(WellFormedOnly(selVersions))))
    /\ IsSome(selTags) =>
          Get(selTags) = getLatestGitTags(Some(WellFormedOnly(selVersions)))

\* The tag half of C4 alone, which getLatestGitTags does satisfy.
MalformedTagsAreExcluded ==
    IsSome(selTags) => Get(selTags) = getLatestGitTags(Some(WellFormedOnly(selVersions)))

AllWellFormed == \A i \in 1..Len(selVersions) : semverValid(selVersions[i])

\* C5: on valid version strings, for every epoch, both selectors return the
\* best version: absent iff the epoch has none, the highest stable version
\* when there is one, the highest pre-release only when none is stable.
StableOutranksPreRelease ==
    AllWellFormed =>
        \A n \in Epochs :
            /\ IsSome(selNpm) => IsBestFor(Get(selNpm).v[n], selVersions, n)
            /\ IsSome(selTags) => IsBestFor(Get(selTags)[n], selVersions, n)

\* The tag half of C5 alone, which findLatestTagForMajor does satisfy.
StableTagOutranksPreRelease ==
    AllWellFormed =>
        \A n \in Epochs : IsSome(selTags) => IsBestFor(Get(selTags)[n], selVersions, n)

(***************************************************************************)
(* Claims about processRepo (checked under SpecRepo).                      *)
(***************************************************************************)
AtBranchLoopEnd == rPc = "branchLoop" /\ pkgIdx > Len(pkgs)

\* The manifest resolved with a version that parses and a core range.
Resolved(pkg) == hasBoth(pkg) /\ IsSome(semverClean(Get(pkg.version)))

\* The manifest qualifies for epoch e in the branch pass.
Qualifies(pkg, e) ==
    Resolved(pkg) /\ branchMarks(semverMajor(Get(semverClean(Get(pkg.version)))),
                                  pkg.coreRange, e)

Qualifying(e) == {i \in 1..Len(pkgs) : Qualifies(pkgs[i], e)}

\* C6: after the branch pass the representative branch of an epoch is the
\* earliest branch, in preference order, whose manifest qualified for it.
EarliestBranchRepresents ==
    AtBranchLoopEnd =>
        \A e \in Epochs :
            Qualifying(e) # {} =>
                supportedBranches[e] =
                    Some(pkgs[CHOOSE i \in Qualifying(e) :
                                  \A j \in Qualifying(e) : i <= j].branch)

\* What the code does instead: the latest qualifying branch represents.
LatestBranchRepresents ==
    AtBranchLoopEnd =>
        \A e \in Epochs :
            Qualifying(e) # {} =>
                supportedBranches[e] =
                    Some(pkgs[CHOOSE i \in Qualifying(e) :
                                  \A j \in Qualifying(e) : i >= j].branch)

TwoBranchesQualify ==
    AtBranchLoopEnd /\ \E e \in Epochs : Cardinality(Qualifying(e)) >= 2

\* One iteration of the loop over pkgs, on a resolved manifest.
BranchStepOnResolved ==
    /\ rPc = "branchLoop"
    /\ pkgIdx <= Len(pkgs)
    /\ pkgIdx' = pkgIdx + 1
    /\ Resolved(pkgs[pkgIdx])

\* The iteration marks epoch e: sets its flag and records its branch.
MarksEpoch(e) == supports'[e] /\ supportedBranches'[e] = Some(pkgs[pkgIdx].branch)

CurrentMajor == semverMajor(Get(semverClean(Get(pkgs[pkgIdx].version))))

\* C7 as stated: a resolved manifest of major M marks an epoch exactly when
\* its core range intersects epoch M, and the epoch it marks is M.
ManifestMarksItsOwnMajor ==
    [][BranchStepOnResolved =>
         \A e \in Epochs :
            MarksEpoch(e) <=>
                (e = CurrentMajor
                 /\ isCompatibleWithMajorVersion(pkgs[pkgIdx].coreRange, CurrentMajor))]_vars

\* C7 as amended: a resolved manifest of major M marks epoch min(M, 2) (M
\* itself for M <= 2, epoch 2 for every M >= 2) exactly when its core range
\* intersects that epoch, and marks no other epoch.
ManifestMarksItsMajorCappedAtTwo ==
    [][BranchStepOnResolved =>
         \A e \in Epochs :
            MarksEpoch(e) <=>
                (e = (IF CurrentMajor >= 2 THEN 2 ELSE CurrentMajor)
                 /\ isCompatibleWithMajorVersion(pkgs[pkgIdx].coreRange, e))]_vars

\* A manifest of major 3 has marked epoch 2.
MajorThreeMarkedEpochTwo ==
    /\ rPc = "branchLoop"
    /\ pkgIdx > 1
    /\ Resolved(pkgs[pkgIdx - 1])
    /\ semverMajor(Get(semverClean(Get(pkgs[pkgIdx - 1].version)))) = 3
    /\ supports[2]
    /\ supportedBranches[2] = Some(pkgs[pkgIdx - 1].branch)

IndexSupplies(e) == IsSome(npmInfo.v[e]) /\ IsSome(npmInfo.coreRange[e])

MismatchIssuesFor(e) ==
    {i \in 1..Len(issues) : issues[i].type = "version mismatch" /\ issues[i].key = e}

\* C8: in the returned verdict, for each epoch E the index supplies a
\* version and core range for: a dominant epoch D # E gives exactly one
\* contradiction issue for E and D supported; otherwise no such issue.
ContradictionIsRecordedOnce ==
    rPc = "done" =>
        \A e \in Epochs :
            IndexSupplies(e) =>
                LET d == getCoreRangeMajor(npmInfo.coreRange[e])
                IN  IF IsSome(d) /\ Get(d) # e
                    THEN /\ Cardinality(MismatchIssuesFor(e)) = 1
                         /\ issues[CHOOSE i \in MismatchIssuesFor(e) : TRUE].core = Get(d)
                         /\ Get(entry).supports[Get(d)]
                    ELSE MismatchIssuesFor(e) = {}

ContradictionHappened ==
    /\ rPc = "done"
    /\ \E e \in Epochs :
          /\ IndexSupplies(e)
          /\ IsSome(getCoreRangeMajor(npmInfo.coreRange[e]))
          /\ Get(getCoreRangeMajor(npmInfo.coreRange[e])) # e
    /\ \E e \in Epochs :
          /\ IndexSupplies(e)
          /\ getCoreRangeMajor(npmInfo.coreRange[e]) \in {None, Some(e)}

\* Support for epoch e derived from the index: its version of epoch e has a
\* core range intersecting e, or the core range of some other epoch's
\* version is anchored to e.
IndexDerived(e) ==
    \/ /\ IndexSupplies(e)
       /\ semverMajor(Get(npmInfo.v[e])) = e
       /\ isCompatibleWithMajorVersion(npmInfo.coreRange[e], e)
    \/ \E k \in Epochs \ {e} :
          IndexSupplies(k) /\ getCoreRangeMajor(npmInfo.coreRange[k]) = Some(e)

\* C9: a flag that is true stays true through every step of the call, and
\* the returned flag is branch-derived support or index-derived support.
SupportIsMonotoneUnion ==
    /\ [][\A e \in Epochs : supports[e] => supports'[e]]_vars
    /\ [](rPc = "done" =>
            \A e \in Epochs :
               Get(entry).supports[e] <=> (branchSupports[e] \/ IndexDerived(e)))

\* A contradiction was recorded against an epoch the branch pass had
\* marked, and another epoch is supported by the index alone.
ContradictionAfterBranchSupport ==
    /\ rPc = "done"
    /\ \E e \in Epochs : branchSupports[e] /\ MismatchIssuesFor(e) # {}
    /\ \E e \in Epochs : ~branchSupports[e] /\ supports[e]

NoEvidence == ~hadManifest /\ \A e \in Epochs : ~IndexSupplies(e)

\* C10: with no manifest holding both a version and a core range and no
\* (version, core range) pair from the index, every epoch is unsupported
\* and has no representative branch.
NoEvidenceNoSupport ==
    (rPc = "done" /\ NoEvidence) =>
        \A e \in Epochs : ~Get(entry).supports[e] /\ Get(entry).git[e].branch = None

\* The closed-world case with tags, metadata, a manifest without core range
\* and an index version without core range all present.
NoEvidenceButTagsAndVersions ==
    /\ rPc = "done"
    /\ NoEvidence
    /\ branchCandidates # <<>>
    /\ \E e \in Epochs : IsSome(gitTagInfo[e])
    /\ \E e \in Epochs : IsSome(npmInfo.v[e])
    /\ IsSome(repoInfo.description)

\* The step in which the tags are read and the entry is returned.
AssembleStep == rPc = "npmLoop" /\ rPc' = "done"

\* The entry the same call returns had the tag listing answered `tags`.
EntryWithTags(tags) ==
    entryOf(gitInfoOf(getLatestGitTags(tags), npmInfo, supportedBranches), npmInfo,
            supports, repoInfo', Get(entry').app)

\* C11: tags never enter the support determination.  The entry returned
\* carries the flags the evidence passes left and the issue list is
\* untouched; whatever else the tag listing had answered, the flags, the
\* index information and the representative branches of the entry are the
\* same, only the displayed versions may differ.  With a tag of epoch 1, no
\* resolvable manifest and the index holding only an epoch-2 version with a
\* caret range on epoch 2, epoch 2 is supported and epochs 1 and 0 are not.
TagsOnlyAffectDisplay ==
    /\ [][AssembleStep =>
            /\ Get(entry').supports = supports
            /\ issues' = issues
            /\ \A tags \in TagAnswers :
                  /\ EntryWithTags(tags).supports = Get(entry').supports
                  /\ EntryWithTags(tags).npm = Get(entry').npm
                  /\ \A e \in Epochs :
                        EntryWithTags(tags).git[e].branch = Get(entry').git[e].branch]_vars
    /\ [](/\ rPc = "done"
          /\ IsSome(gitTagInfo[1])
          /\ ~hadManifest
          /\ ~IsSome(npmInfo.v[0]) /\ ~IsSome(npmInfo.v[1])
          /\ npmInfo.v[2] = Some(Ver(2, 0, 0))
          /\ npmInfo.coreRange[2] = Some(Caret(2, 1))
          => /\ Get(entry).supports[2]
             /\ ~Get(entry).supports[1]
             /\ ~Get(entry).supports[0])

\* A tag of epoch 1 is displayed while only epoch 2 is supported, through
\* the index.
TagDisplayedWithoutSupport ==
    /\ rPc = "done"
    /\ IsSome(gitTagInfo[1])
    /\ ~hadManifest
    /\ ~IsSome(npmInfo.v[0]) /\ ~IsSome(npmInfo.v[1])
    /\ npmInfo.v[2] = Some(Ver(2, 0, 0))
    /\ npmInfo.coreRange[2] = Some(Caret(2, 1))
    /\ Get(entry).git[1].version = gitTagInfo[1]
    /\ Get(entry).supports = [e \in Epochs |-> e = 2]

\* The manifest's resolved core range is a workspace placeholder.
IsPlaceholder(pkg) == IsSome(pkg.coreRange) /\ startsWith(Get(pkg.coreRange), "workspace:")

\* C12: a manifest whose resolved core range is a workspace placeholder
\* marks no epoch and records no branch, whatever its version; after a
\* branch pass over placeholder manifests only, nothing is supported and no
\* branch is recorded, so support can only come from the index.
PlaceholderManifestMarksNothing ==
    /\ [][(/\ rPc = "branchLoop"
           /\ pkgIdx <= Len(pkgs)
           /\ pkgIdx' = pkgIdx + 1
           /\ IsPlaceholder(pkgs[pkgIdx]))
          => /\ supports' = supports
             /\ supportedBranches' = supportedBranches
             /\ \A ver \in ManifestVersions :
                   LET acc == [supports |-> supports,
                               supportedBranches |-> supportedBranches]
                   IN  branchLoopBody(acc, [pkgs[pkgIdx] EXCEPT !.version = Some(ver)])
                         = acc]_vars
    /\ []((AtBranchLoopEnd /\ \A i \in 1..Len(pkgs) : IsPlaceholder(pkgs[i]))
          => supports = NoSupport /\ supportedBranches = NoBranches)

\* The branch pass has gone over a manifest with a version and a
\* placeholder core range, and nothing is marked.
PlaceholderManifestPassed ==
    /\ AtBranchLoopEnd
    /\ pkgs # <<>>
    /\ \A i \in 1..Len(pkgs) : IsPlaceholder(pkgs[i]) /\ IsSome(pkgs[i].version)
    /\ supports = NoSupport

(***************************************************************************)
(* Claims about parseRegistry (checked under Spec).                        *)
(***************************************************************************)

\* processRepo threw for the k-th entry handed to it.
EntryFailed(k) == processRepo(fetched[k].key, handed[k], fetched[k].value).threw

Finished == bPc \in {"returned", "written"}

\* C1: when processRepo fails for an entry the run is not terminated:
\* parseRegistry still returns, every entry is in the report, and the
\* failing entry is there together with an issue note.
EntryFailureDoesNotEndTheRun ==
    (\E k \in 1..Len(fetched) : EntryFailed(k)) =>
        /\ bPc \notin {"rejected", "exit"}
        /\ Finished =>
              /\ \A i \in 1..Len(entries) : objHas(Get(returned), entries[i].key)
              /\ \A k \in 1..Len(fetched) :
                    EntryFailed(k) => objHas(allIssues, fetched[k].key)

\* A remote signal of the k-th entry processed failed through its retries.
SignalDown(k) == fetched[k].value \in OneSignalDown

\* C2: when the only trouble of a run is that one remote signal failed for
\* K of its N entries, the report returned has exactly N entries and exactly
\* K entries carry issue notes, whichever signal it was.
FetchFailuresAreCounted ==
    (Finished /\ \A k \in 1..Len(fetched) : fetched[k].value \in OneSignalDown \cup {Healthy}) =>
        /\ Len(Get(returned)) = Len(entries)
        /\ Len(allIssues) = Cardinality({k \in 1..Len(fetched) : SignalDown(k)})

\* A string `github:<owner>/<repo>` with owner and repo non-empty.
Recognizable(value) ==
    /\ value.isString
    /\ \E k \in 3..(Len(value.tokens) - 1) :
          /\ value.tokens[1] = "github:"
          /\ value.tokens[k] = "/"
          /\ \A j \in 1..Len(value.tokens) : j # k => value.tokens[j] # "/"

\* C3: the filter keeps only entries with a non-blank key and a
\* recognizable repository reference, so every reference handed to
\* processRepo is parsed by parseGitRef.
FilterKeepsOnlyRepositoryReferences ==
    /\ \A i \in 1..Len(entries) :
          Recognizable(entries[i].value) /\ trim(entries[i].key) # <<>>
    /\ \A k \in 1..Len(handed) : IsSome(parseGitRef(handed[k]))

\* The half of C3 the filter does satisfy: no blank key, no value that is
\* not a string starting with "github:".
FilterKeepsGithubStrings ==
    \A i \in 1..Len(entries) :
        /\ trim(entries[i].key) # <<>>
        /\ entries[i].value.isString
        /\ refStartsWithGithub(entries[i].value)

(***************************************************************************)
(* Claims about the range classifiers (checked under SpecRange).           *)
(***************************************************************************)
BothAnswered == IsSome(rgCompat) /\ IsSome(rgDominant)

\* C13: a range that getCoreRangeMajor classifies as epoch N passes
\* isCompatibleWithMajorVersion for N.
ClassifiedImpliesCompatible ==
    (BothAnswered /\ IsSome(Get(rgDominant))) => Get(rgCompat)[Get(Get(rgDominant))]

\* C13 restricted to text that is a range some version satisfies.
ClassifiedSatisfiableImpliesCompatible ==
    (/\ BothAnswered
     /\ IsSome(Get(rgDominant))
     /\ \E n \in 0..MaxMajor : Get(rgCompat)[n])
    => Get(rgCompat)[Get(Get(rgDominant))]

\* The raw range is one bare full version ("1.2.3", "1.0.0-rc").
IsBareVersion ==
    /\ IsSome(rgRange)
    /\ isExactVersion(Get(rgRange))
    /\ Get(rgRange).alts[1][1].op = ""

ExactMajor == Get(rgRange).alts[1][1].maj

\* C14: an exact version V of major M intersects every epoch N >= M and no
\* epoch N < M, and the dominant-epoch classifier reports it as anchored to
\* M (for M an epoch).
ExactVersionIsOpenEnded ==
    (BothAnswered /\ IsBareVersion) =>
        /\ \A n \in 0..MaxMajor : Get(rgCompat)[n] <=> n >= ExactMajor
        /\ ExactMajor \in Epochs => Get(rgDominant) = Some(ExactMajor)

\* C14 for exact versions without a pre-release tag, for which it holds.
ExactStableVersionIsOpenEnded ==
    (BothAnswered /\ IsBareVersion /\ Get(rgRange).alts[1][1].pre = 0) =>
        /\ \A n \in 0..MaxMajor : Get(rgCompat)[n] <=> n >= ExactMajor
        /\ ExactMajor \in Epochs => Get(rgDominant) = Some(ExactMajor)

\* The raw range is absent, no string, URL-like, path-like, a workspace
\* placeholder, or text that is no range.
IsNonSemantic ==
    \/ ~IsSome(rgRange)
    \/ Get(rgRange).kind \in {"nonstring", "workspace", "http", "git", "file", "text"}

\* C15: for a range that is absent, not a string, URL-like, path-like, a
\* workspace placeholder or malformed, isCompatibleWithMajorVersion answers
\* (it raises nothing) and answers false for every major.
NonSemanticNeverCompatible ==
    IsNonSemantic =>
        /\ IsSome(rgDominant) => ENABLED RangeCompat \/ IsSome(rgCompat)
        /\ IsSome(rgCompat) => \A n \in 0..MaxMajor : ~Get(rgCompat)[n]

\* The test has answered for malformed text that starts like a version.
MalformedTextAnswered ==
    /\ IsSome(rgCompat)
    /\ IsSome(rgRange)
    /\ Get(rgRange).kind = "text"
    /\ Get(rgRange).alts # <<>>
    /\ \A n \in 0..MaxMajor : ~Get(rgCompat)[n]

(***************************************************************************)
(* More claims about parseRegistry (checked under Spec).                   *)
(***************************************************************************)
ReturnedKeys == objKeys(Get(returned))

\* C16: the keys of the registry returned are enumerated in lexicographic
\* (code unit) order, and they are exactly the keys of the entries
\* processed.
ReportKeysAreLexicographic ==
    Finished =>
        /\ \A i, j \in 1..Len(ReturnedKeys) :
              i < j => codeUnitCompare(ReturnedKeys[i], ReturnedKeys[j]) < 0
        /\ {ReturnedKeys[i] : i \in 1..Len(ReturnedKeys)}
             = {entries[i].key : i \in 1..Len(entries)}

\* C16 for catalogs with at most one key that is an array index, for which
\* it holds.
ReportKeysAreLexicographicWithoutIndexKeys ==
    (Finished /\ Cardinality({i \in 1..Len(entries) : isArrayIndex(entries[i].key)}) <= 1) =>
        /\ \A i, j \in 1..Len(ReturnedKeys) :
              i < j => codeUnitCompare(ReturnedKeys[i], ReturnedKeys[j]) < 0
        /\ {ReturnedKeys[i] : i \in 1..Len(ReturnedKeys)}
             = {entries[i].key : i \in 1..Len(entries)}

(***************************************************************************)
(* Claims about the retry policy of one remote read (checked under         *)
(* SpecFetch).                                                             *)
(***************************************************************************)
\* The read has returned after every request for the file failed.
Exhausted(file) == fPc = "done" /\ fTries[file] > 0 /\ fFailures[file] = fTries[file]

\* C17: a branch listing, tag listing, repository metadata or root manifest
\* read that degrades to absent has made the configured number of
\* attempts; the package index and typescript/package.json are asked once.
HostReadsAreRetried ==
    /\ Exhausted("root") => fTries.root = (IF fCall = "npm" THEN 1 ELSE fRetries)
    /\ fTries.ts <= 1

\* C17 without the tag listing, for which it holds.
HostReadsButTagsAreRetried ==
    /\ (Exhausted("root") /\ fCall # "tags") =>
          fTries.root = (IF fCall = "npm" THEN 1 ELSE fRetries)
    /\ fTries.ts <= 1

\* The fields of an entry that a remote signal feeds.
FieldsOf(answers) ==
    IF answers = RepoInfoDown THEN {"description", "stargazers_count"}
    ELSE IF answers = TagsDown THEN {"git"}
    ELSE IF answers = NpmDown THEN {"npm", "git", "supports"}
    ELSE {"git", "supports"}

EntryFields == {"git", "npm", "supports", "description", "stargazers_count", "app"}

\* The entry of the k-th repository processed, and the entry it would have
\* had with every signal answering.
EntryMade(k) == Get(processRepo(fetched[k].key, handed[k], fetched[k].value).info)
EntryHealthy(k) == Get(processRepo(fetched[k].key, handed[k], Healthy).info)

\* C18: when one remote signal of an entry fails through its retries, the
\* entry differs from the one it would have had only in the fields that
\* signal feeds, and the issue log has a note under the entry's key.
FailedSignalIsNoted ==
    Finished =>
        \A k \in 1..Len(fetched) :
            (SignalDown(k) /\ ~EntryFailed(k)) =>
                /\ \A f \in EntryFields \ FieldsOf(fetched[k].value) :
                      EntryMade(k)[f] = EntryHealthy(k)[f]
                /\ objHas(allIssues, fetched[k].key)

\* C18 with the issue note expected for the branch listing only, for which
\* it holds.
FailedBranchListingIsNoted ==
    Finished =>
        \A k \in 1..Len(fetched) :
            (SignalDown(k) /\ ~EntryFailed(k)) =>
                /\ \A f \in EntryFields \ FieldsOf(fetched[k].value) :
                      EntryMade(k)[f] = EntryHealthy(k)[f]
                /\ fetched[k].value = BranchesDown => objHas(allIssues, fetched[k].key)

(***************************************************************************)
(* Claims about the batch loop (checked under SpecFlight).                 *)
(***************************************************************************)
\* The resolutions in flight are at most BATCH_SIZE and all of the batch at
\* position flI; while they run, exactly the earlier batches are folded
\* into the report, and a pause has preceded every batch but the first.
OneBatchInFlight ==
    /\ Cardinality(flRunning) <= flSize
    /\ flRunning \subseteq batchAt(flI, flSize, flN)
    /\ flBatches > 0 =>
          /\ flPc \in {"await", "rejected"} =>
                /\ flReport = 1..flI
                /\ Len(flPauses) = flBatches - 1
          /\ flPc = "pause" => flI + flSize < flN
          /\ flPc = "done" =>
                /\ flReport = 1..flN
                /\ Len(flPauses) = flBatches - 1
    /\ \A p \in 1..Len(flPauses) : flPauses[p] = flDelay

\* A batch is launched only with nothing in flight, every earlier entry
\* folded and, after the first batch, out of the pause.
LaunchStep ==
    flBatches' # flBatches =>
        /\ flRunning = {}
        /\ flReport' = 1..flI'
        /\ flBatches > 0 => (flPc = "pause" /\ Len(flPauses') = Len(flPauses) + 1)

\* The report is written only with no resolution running.
FoldStep == flReport' # flReport => (flRunning = {} /\ flResults' = {})

ManifestRead == fCall = "manifest" /\ fPc = "done" /\ IsSome(fRoot) /\ IsSome(Get(fRoot))

RootInfo == extractVersionInfo(Get(Get(fRoot)))
TsInfo == extractVersionInfo(Get(Get(fTs)))
TsRead == IsSome(fTs) /\ IsSome(Get(fTs))

\* A core range that is there and is no workspace placeholder.
HasRealRange(info) == IsSome(info.coreRange) /\ ~IsPlaceholder(info)

Returns(info) == Get(fOut).status = "fulfilled" /\ Get(fOut).value = Some(info)

SecondaryManifestRule ==
    /\ HasRealRange(RootInfo) => (Returns(RootInfo) /\ fTries.ts = 0)
    /\ IsPlaceholder(RootInfo) =>
          /\ fTries.ts = 1
          /\ IF TsRead /\ HasRealRange(TsInfo) THEN Returns(TsInfo) ELSE Returns(RootInfo)

\* C20: with package.json there, a root core range that is no placeholder
\* is returned without asking for typescript/package.json; with a
\* workspace placeholder that file is asked for exactly once, and its info
\* is returned when it has a core range that is no placeholder, the root's
\* info otherwise, without an error.
ManifestFollowsSecondaryRule == ManifestRead => SecondaryManifestRule

\* C20 for manifests whose core range, when there, is a string, for which
\* it holds.
AllStrings ==
    /\ IsSome(RootInfo.coreRange) => isString(Get(RootInfo.coreRange))
    /\ (TsRead /\ IsSome(TsInfo.coreRange)) => isString(Get(TsInfo.coreRange))

StringManifestFollowsSecondaryRule == (ManifestRead /\ AllStrings) => SecondaryManifestRule

\* fetchPackageJSON has settled and fetchGitHubFile gave null for
\* package.json: every attempt failed, or the answer had no content.
RootAbsent == fCall = "manifest" /\ fPc = "done" /\ fRoot = Some(None)

\* What the loops of processRepo hold before a branch's manifest is read.
SupportSoFar ==
    {[supports |-> [e \in Epochs |-> e \in S],
      supportedBranches |-> [e \in Epochs |-> IF e \in S THEN Some("master") ELSE None]] :
        S \in SUBSET Epochs}

\* C21: when package.json of a ref is absent or cannot be fetched,
\* fetchPackageJSON yields null without a request for
\* typescript/package.json, and the branch adds no support and no
\* representative branch to any epoch.
AbsentRootYieldsAbsent ==
    RootAbsent =>
        /\ Get(fOut).status = "fulfilled"
        /\ Get(fOut).value = None
        /\ fTries.ts = 0
        /\ fTs = None
        /\ \A acc \in SupportSoFar :
              branchLoop(acc, collectPkgs(<<Get(fOut)>>, <<"main">>)) = acc

\* package.json failed on each of three attempts.
RootFailedThroughRetries ==
    /\ RootAbsent
    /\ fRetries = 3
    /\ fFailures.root = 3
    /\ fOut = Some(Fulfilled(None, FALSE))

(***************************************************************************)
(* More claims about the range classifiers (checked under SpecRange).      *)
(***************************************************************************)
\* The stable versions a range is tried against.
SampleVersions == {Ver(maj, min, 0) : maj \in 0..(MaxMajor + 1), min \in 0..(MaxMinor + 1)}

\* semver's satisfies for a stable version: some alternative of the range
\* has every comparator pass.
satisfiesRange(ver, range) ==
    /\ IsSome(range)
    /\ LET normal == semverValidRange(Get(range))
       IN  /\ IsSome(normal)
           /\ \E a \in 1..Len(Get(normal)) :
                 \A i \in 1..Len(Get(normal)[a]) : cmpTest(Get(normal)[a][i], ver)

MajorsOf(range) == {ver.maj : ver \in {w \in SampleVersions : satisfiesRange(w, range)}}

IsInequalityOnly(range) ==
    /\ IsSome(range)
    /\ Get(range).kind = "range"
    /\ \A a \in 1..Len(Get(range).alts) : \A i \in 1..Len(Get(range).alts[a]) :
          Get(range).alts[a][i].op \in {">=", ">", "<", "<="}

DominantRule ==
    /\ IsSome(Get(rgDominant)) => MajorsOf(rgRange) \subseteq {Get(Get(rgDominant))}
    /\ (\/ IsInequalityOnly(rgRange)
        \/ (IsSome(rgRange) /\ Get(rgRange).kind = "latest")
        \/ Cardinality(MajorsOf(rgRange)) > 1) => Get(rgDominant) = None

\* C22: getCoreRangeMajor returns an epoch N only for a range whose every
\* satisfying version has major N; for inequality-only ranges, "latest" and
\* ranges satisfied by versions of more than one major it returns null.
DominantMeansSingleMajor == IsSome(rgDominant) => DominantRule

\* C22 for ranges of one alternative (no "||"), for which it holds.
DominantMeansSingleMajorWithoutAlternatives ==
    (/\ IsSome(rgDominant)
     /\ IsSome(rgRange) => Len(Get(rgRange).alts) <= 1) => DominantRule

(***************************************************************************)
(* Claims about the overlap of the calls of processRepo (checked under     *)
(* SpecJoin).                                                              *)
(***************************************************************************)
\* Once processRepo awaits anything, each of the four calls was started.
AllStartedBeforeAwait ==
    jPc \in {"awaitBranches", "awaitManifests", "awaitJoin", "done"} =>
        \A c \in FirstCalls : jCalls[c] # "idle"

\* A step that issues manifest fetches is taken with the four calls
\* completed.
ManifestIssueStep ==
    (jFiles = {} /\ jFiles' # {}) => \A c \in FirstCalls : jCalls'[c] \notin {"idle", "pending"}

\* C23: the branch listing, the tag listing, the repository metadata fetch
\* and the index fetch are all started before any of them is awaited, and
\* no manifest fetch of a branch is issued until all four have completed.
ManifestsWaitForAllFour == []AllStartedBeforeAwait /\ [][ManifestIssueStep]_vars

\* A step that issues manifest fetches is taken with the branch listing
\* completed.
ManifestIssueAfterBranchesStep ==
    (jFiles = {} /\ jFiles' # {}) => jCalls'["branches"] \notin {"idle", "pending"}

\* C23 with the manifest fetches waiting for the branch listing only, for
\* which it holds.
ManifestsWaitForBranches == []AllStartedBeforeAwait /\ [][ManifestIssueAfterBranchesStep]_vars

(***************************************************************************)
(* More claims about the retry policy (checked under SpecFetch).           *)
(***************************************************************************)
\* The read of the first file (or the listing, or the metadata) is over,
\* and what it gave.
FirstReadOver == IF fCall = "manifest" THEN IsSome(fRoot) ELSE fPc = "done"
FirstReadAbsent == IF fCall = "manifest" THEN fRoot = Some(None) ELSE fOut = Some(None)

\* C24: a read with a retry loop and retry count R issues at most R
\* requests, stops at the first request that answers, waits 1000 * 2^(k-1)
\* ms after the k-th failure for k < R and not after the R-th, and after R
\* failures returns its absent value.
RetryLoopDiscipline ==
    hasRetryLoop(fCall) =>
        /\ fTries.root <= fRetries
        /\ fTries.ts <= 1
        /\ \A k \in 1..Len(fWaits) : fWaits[k] = 1000 * 2 ^ (k - 1)
        /\ Len(fWaits) = (IF fFailures.root < fRetries THEN fFailures.root ELSE fRetries - 1)
        /\ FirstReadOver =>
              IF fFailures.root = fTries.root
              THEN fTries.root = fRetries /\ FirstReadAbsent
              ELSE fTries.root = fFailures.root + 1
        /\ (FirstReadOver /\ fCall # "manifest" /\ fFailures.root < fTries.root) =>
              fOut = Some(Some("data"))
        /\ IsSome(fTs) => (fTries.ts = 1 /\ (fFailures.ts = 1 => fTs = Some(None)))

\* The branch listing failed four times of four, with waits of one, two
\* and four seconds, and returned its empty value.
FourFailuresThreeWaits ==
    /\ fCall = "branches"
    /\ fRetries = 4
    /\ fPc = "done"
    /\ fFailures.root = 4
    /\ fWaits = <<1000, 2000, 4000>>
    /\ fOut = Some(None)

(***************************************************************************)
(* Claims about the end of the batch loop (checked under SpecLoop).        *)
(***************************************************************************)
\* ceil(n / d) for an integer d other than 0.
ceilDiv(n, d) == IF d > 0 THEN (n + d - 1) \div d ELSE -(n \div (-d))

\* The batches the claim allows: ceil(n / BATCH_SIZE), and none when that is
\* not positive.
BatchesAllowed == Max(ceilDiv(flN, flSize), 0)

LoopRule ==
    /\ flBatches <= BatchesAllowed
    /\ flPc = "done" =>
          /\ flBatches = BatchesAllowed
          /\ flReport = 1..flN

\* C25: for every catalog and every BATCH_SIZE the environment can give,
\* the batch loop runs no more than ceil(n / BATCH_SIZE) batches, and when
\* it has ended it has run exactly that many and every entry was handled.
LoopEndsAfterCeilBatches == LoopRule

\* C25 for a BATCH_SIZE of at least 1, for which it holds.
LoopEndsAfterCeilBatchesWhenPositive == flSize >= 1 => LoopRule

(***************************************************************************)
(* More claims about processRepo (checked under SpecRepo).                 *)
(***************************************************************************)
\* In the entry returned, an epoch with a representative branch is
\* supported, and the branch is one of the candidates found on the
\* repository.
BranchesInEntryAreSupported ==
    rPc = "done" =>
        \A e \in Epochs :
            IsSome(Get(entry).git[e].branch) =>
                /\ Get(entry).supports[e]
                /\ \E i \in 1..Len(branchCandidates) :
                      branchCandidates[i] = Get(Get(entry).git[e].branch)

\* From the join on (the index evidence, the contradictions, the entry)
\* the representative branches stay as the branch loop left them.
BranchesKeptStep == rPc \in {"join", "npmLoop"} => supportedBranches' = supportedBranches

\* C26: in every entry returned a representative branch for an epoch
\* implies the epoch is supported and is a candidate branch of the
\* repository; index evidence and contradictions never set or change a
\* representative branch.
BranchImpliesSupport == []BranchesInEntryAreSupported /\ [][BranchesKeptStep]_vars

\* An entry whose epoch 1 has the branch main, and whose epoch 2 is
\* supported by a contradiction in the index without a branch.
BranchAndContradictionInEntry ==
    /\ rPc = "done"
    /\ Get(entry).git[1].branch = Some("main")
    /\ Get(entry).supports[1]
    /\ Get(entry).supports[2]
    /\ Get(entry).git[2].branch = None
    /\ issues # <<>>

=============================================================================
